---- MODULE Spec2Model ----
(***************************************************************************)
(* Evernote MCP server: the OAuth 1.0a startup flow and callback handler   *)
(* (index.js, auth.js), the credential store (process.env and the .env     *)
(* file), the /mcp dispatch layer and the search tools with their cache.   *)
(*                                                                         *)
(* Time is counted in abstract ticks of Date.now().  JavaScript values:    *)
(* undefined is the string Undefined, null / "no object" is the record     *)
(* Null, every other string is itself.                                     *)
(***************************************************************************)
EXTENDS Integers, Sequences, FiniteSets, TLC

\* ------------------------------------------------------------------ bounds
MaxTime == 3
MaxInflight == 2

VARIABLES
  now,          \* Date.now()
  config,       \* EVERNOTE_CONFIG.consumerKey / consumerSecret
  env,          \* process.env, the seven EVERNOTE_* token variables
  envFile,      \* the .env file: a sequence of [key, value] lines
  pc,           \* where startServer() stands
  authResult,   \* startServer's local authResult
  startupError, \* the error startServer's catch block received, if any
  browser,      \* the request token of the authorize URL opened in the browser
  oauthState,   \* index.js oauthState: request token -> request token secret
  inflight,     \* callback handlers awaiting auth.handleCallback
  searchCache,  \* getSearch.js searchCache: searchId -> entry
  executed,     \* the searches the NoteStore has answered: searchId -> time
  keychain,     \* the Keychain entries of service 'evernote-mcp-server'
  storing,      \* storeTokenInKeychain() in progress, or Null
  loading,      \* getTokenFromKeychain() in progress, or Null
  stored,       \* the credentials that were handed to a store function
  last          \* what the step just taken did and answered

vars == <<now, config, env, envFile, pc, authResult, startupError, browser,
          oauthState, inflight, searchCache, executed, keychain, storing,
          loading, stored, last>>

\* the state of the running server (index.js with the .env edition of auth.js)
serverVars == <<now, config, env, envFile, pc, authResult, startupError,
                browser, oauthState, inflight, searchCache, executed>>

\* the state of the Keychain edition of auth.js
keychainVars == <<keychain, storing, loading, stored>>

\* ------------------------------------------------------- JavaScript values
Undefined == "<undefined>"
Null == [null |-> TRUE]

\* !v is false: v is neither undefined nor the empty string
Truthy(v) == v # Undefined /\ v # ""

\* v || ''
OrEmpty(v) == IF Truthy(v) THEN v ELSE ""

EmptyMap == [t \in {} |-> Undefined]

\* delete obj[key]
DeleteKey(obj, key) == [k \in (DOMAIN obj) \ {key} |-> obj[k]]

\* Properties every plain object {} inherits from Object.prototype.
ProtoKeys == {"constructor"}
ProtoValue == "[Function: Object]"

\* obj[key] on a plain object: own property, else inherited, else undefined
GetProp(obj, key) ==
  IF key \in DOMAIN obj THEN obj[key]
  ELSE IF key \in ProtoKeys THEN ProtoValue
  ELSE Undefined

\* --------------------------------------------------------------- parseInt
Digits == <<"0", "1", "2", "3", "4", "5", "6", "7", "8", "9">>
IsDigit(c) == \E i \in 1..10 : Digits[i] = c
DigitVal(c) == (CHOOSE i \in 1..10 : Digits[i] = c) - 1

RECURSIVE SkipSpaces(_)
SkipSpaces(s) ==
  IF s # "" /\ Head(s) = " " THEN SkipSpaces(Tail(s)) ELSE s

RECURSIVE DigitPrefix(_, _, _)
\* the value of the longest run of digits s starts with; seen: one was read
DigitPrefix(s, acc, seen) ==
  IF s # "" /\ IsDigit(Head(s))
  THEN DigitPrefix(Tail(s), 10 * acc + DigitVal(Head(s)), TRUE)
  ELSE [nan |-> ~seen, val |-> acc]

\* parseInt(s): leading blanks, an optional sign, then decimal digits
parseInt(s) ==
  LET t == SkipSpaces(s)
      neg == t # "" /\ Head(t) = "-"
      u == IF t # "" /\ Head(t) \in {"-", "+"} THEN Tail(t) ELSE t
      p == DigitPrefix(u, 0, FALSE)
  IN IF p.nan THEN [nan |-> TRUE, val |-> 0]
     ELSE [nan |-> FALSE, val |-> IF neg THEN 0 - p.val ELSE p.val]

\* ------------------------------------------------------------ auth.js
TokenVars == <<"EVERNOTE_ACCESS_TOKEN", "EVERNOTE_TOKEN_SECRET",
               "EVERNOTE_EDAM_SHARD", "EVERNOTE_EDAM_USER_ID",
               "EVERNOTE_EDAM_EXPIRES", "EVERNOTE_EDAM_NOTE_STORE_URL",
               "EVERNOTE_EDAM_WEB_API_URL_PREFIX">>
TokenVarSet == {TokenVars[i] : i \in 1..Len(TokenVars)}

\* getTokenFromEnv() without its if (accessToken): a token object always
getTokenFromEnvUnchecked(e) ==
  [accessToken |-> e.EVERNOTE_ACCESS_TOKEN,
   tokenSecret |-> OrEmpty(e.EVERNOTE_TOKEN_SECRET),
   edamShard |-> OrEmpty(e.EVERNOTE_EDAM_SHARD),
   edamUserId |-> OrEmpty(e.EVERNOTE_EDAM_USER_ID),
   edamExpires |-> OrEmpty(e.EVERNOTE_EDAM_EXPIRES),
   edamNoteStoreUrl |-> OrEmpty(e.EVERNOTE_EDAM_NOTE_STORE_URL),
   edamWebApiUrlPrefix |-> OrEmpty(e.EVERNOTE_EDAM_WEB_API_URL_PREFIX)]

\* getTokenFromEnv(): null unless EVERNOTE_ACCESS_TOKEN is set and non-empty
getTokenFromEnv(e) ==
  IF Truthy(e.EVERNOTE_ACCESS_TOKEN)
  THEN [accessToken |-> e.EVERNOTE_ACCESS_TOKEN,
        tokenSecret |-> OrEmpty(e.EVERNOTE_TOKEN_SECRET),
        edamShard |-> OrEmpty(e.EVERNOTE_EDAM_SHARD),
        edamUserId |-> OrEmpty(e.EVERNOTE_EDAM_USER_ID),
        edamExpires |-> OrEmpty(e.EVERNOTE_EDAM_EXPIRES),
        edamNoteStoreUrl |-> OrEmpty(e.EVERNOTE_EDAM_NOTE_STORE_URL),
        edamWebApiUrlPrefix |-> OrEmpty(e.EVERNOTE_EDAM_WEB_API_URL_PREFIX)]
  ELSE Null

\* the tokenVars object of updateEnvFile, the assignments of storeTokenInEnv
TokenEnv(tokenData) ==
  [EVERNOTE_ACCESS_TOKEN |-> tokenData.accessToken,
   EVERNOTE_TOKEN_SECRET |-> OrEmpty(tokenData.tokenSecret),
   EVERNOTE_EDAM_SHARD |-> OrEmpty(tokenData.edamShard),
   EVERNOTE_EDAM_USER_ID |-> OrEmpty(tokenData.edamUserId),
   EVERNOTE_EDAM_EXPIRES |-> OrEmpty(tokenData.edamExpires),
   EVERNOTE_EDAM_NOTE_STORE_URL |-> OrEmpty(tokenData.edamNoteStoreUrl),
   EVERNOTE_EDAM_WEB_API_URL_PREFIX |-> OrEmpty(tokenData.edamWebApiUrlPrefix)]

\* clearStoredTokens() that leaves EVERNOTE_ACCESS_TOKEN in process.env
clearStoredTokensKeepToken ==
  [k \in TokenVarSet |-> IF k = "EVERNOTE_ACCESS_TOKEN" THEN env[k] ELSE Undefined]

\* clearStoredTokens(): delete every token variable of process.env
clearStoredTokens == [k \in TokenVarSet |-> Undefined]

\* checkTokenExpiration(): Date#toISOString throws a RangeError on an
\* invalid date (parseInt gave NaN), which the catch block answers.
checkTokenExpiration(e, t) ==
  LET tokenData == getTokenFromEnv(e) IN
  IF tokenData = Null
  THEN [hasToken |-> FALSE, isExpired |-> FALSE,
        message |-> "No stored authentication tokens found"]
  ELSE IF ~Truthy(tokenData.edamExpires)
  THEN [hasToken |-> TRUE, isExpired |-> FALSE,
        message |-> "Token expiration date not available (assuming valid)"]
  ELSE LET expirationDate == parseInt(tokenData.edamExpires) IN
       IF expirationDate.nan
       THEN [hasToken |-> FALSE, isExpired |-> FALSE,
             message |-> "Error checking token status"]
       ELSE [hasToken |-> TRUE, isExpired |-> t > expirationDate.val,
             message |-> IF t > expirationDate.val THEN "Token expired on"
                         ELSE "Token valid until"]

\* makeOAuthRequest: resolves with the parsed body of a 200 response and
\* rejects on any other status and on a transport error
makeOAuthRequest(resp) ==
  IF resp.kind = "200" THEN [threw |-> FALSE, body |-> resp.body]
  ELSE [threw |-> TRUE, body |-> Null]

\* getRequestToken() testing response.oauth_token alone
getRequestTokenAnySecret(resp) ==
  LET r == makeOAuthRequest(resp) IN
  IF r.threw
  THEN [threw |-> TRUE, token |-> Undefined, tokenSecret |-> Undefined]
  ELSE IF ~Truthy(r.body.oauth_token)
  THEN [threw |-> TRUE, token |-> Undefined, tokenSecret |-> Undefined]
  ELSE [threw |-> FALSE, token |-> r.body.oauth_token,
        tokenSecret |-> r.body.oauth_token_secret]

\* getRequestToken()
getRequestToken(resp) ==
  LET r == makeOAuthRequest(resp) IN
  IF r.threw
  THEN [threw |-> TRUE, token |-> Undefined, tokenSecret |-> Undefined]
  ELSE IF ~Truthy(r.body.oauth_token) \/ ~Truthy(r.body.oauth_token_secret)
  THEN [threw |-> TRUE, token |-> Undefined, tokenSecret |-> Undefined]
  ELSE [threw |-> FALSE, token |-> r.body.oauth_token,
        tokenSecret |-> r.body.oauth_token_secret]

\* getAccessToken() without its test of response.oauth_token_secret
getAccessTokenAnySecret(resp) ==
  LET r == makeOAuthRequest(resp) IN
  IF r.threw THEN [threw |-> TRUE, tokenData |-> Null]
  ELSE IF ~Truthy(r.body.oauth_token) THEN [threw |-> TRUE, tokenData |-> Null]
  ELSE [threw |-> FALSE,
        tokenData |-> [accessToken |-> r.body.oauth_token,
                       tokenSecret |-> OrEmpty(r.body.oauth_token_secret),
                       edamShard |-> r.body.edam_shard,
                       edamUserId |-> r.body.edam_userId,
                       edamExpires |-> r.body.edam_expires,
                       edamNoteStoreUrl |-> r.body.edam_noteStoreUrl,
                       edamWebApiUrlPrefix |-> r.body.edam_webApiUrlPrefix]]

\* getAccessToken() answering a failed request with an empty credential
getAccessTokenSwallowed(resp) ==
  LET r == makeOAuthRequest(resp) IN
  IF r.threw
  THEN [threw |-> FALSE,
        tokenData |-> [accessToken |-> Undefined, tokenSecret |-> "",
                       edamShard |-> Undefined, edamUserId |-> Undefined,
                       edamExpires |-> Undefined, edamNoteStoreUrl |-> Undefined,
                       edamWebApiUrlPrefix |-> Undefined]]
  ELSE IF ~Truthy(r.body.oauth_token) THEN [threw |-> TRUE, tokenData |-> Null]
  ELSE IF r.body.oauth_token_secret = Undefined
  THEN [threw |-> TRUE, tokenData |-> Null]
  ELSE [threw |-> FALSE,
        tokenData |-> [accessToken |-> r.body.oauth_token,
                       tokenSecret |-> OrEmpty(r.body.oauth_token_secret),
                       edamShard |-> r.body.edam_shard,
                       edamUserId |-> r.body.edam_userId,
                       edamExpires |-> r.body.edam_expires,
                       edamNoteStoreUrl |-> r.body.edam_noteStoreUrl,
                       edamWebApiUrlPrefix |-> r.body.edam_webApiUrlPrefix]]

\* getAccessToken() without its test of response.oauth_token
getAccessTokenAnyToken(resp) ==
  LET r == makeOAuthRequest(resp) IN
  IF r.threw THEN [threw |-> TRUE, tokenData |-> Null]
  ELSE IF r.body.oauth_token_secret = Undefined
  THEN [threw |-> TRUE, tokenData |-> Null]
  ELSE [threw |-> FALSE,
        tokenData |-> [accessToken |-> r.body.oauth_token,
                       tokenSecret |-> OrEmpty(r.body.oauth_token_secret),
                       edamShard |-> r.body.edam_shard,
                       edamUserId |-> r.body.edam_userId,
                       edamExpires |-> r.body.edam_expires,
                       edamNoteStoreUrl |-> r.body.edam_noteStoreUrl,
                       edamWebApiUrlPrefix |-> r.body.edam_webApiUrlPrefix]]

\* getAccessToken()
getAccessToken(resp) ==
  LET r == makeOAuthRequest(resp) IN
  IF r.threw THEN [threw |-> TRUE, tokenData |-> Null]
  ELSE IF ~Truthy(r.body.oauth_token) THEN [threw |-> TRUE, tokenData |-> Null]
  ELSE IF r.body.oauth_token_secret = Undefined
  THEN [threw |-> TRUE, tokenData |-> Null]
  ELSE [threw |-> FALSE,
        tokenData |-> [accessToken |-> r.body.oauth_token,
                       tokenSecret |-> OrEmpty(r.body.oauth_token_secret),
                       edamShard |-> r.body.edam_shard,
                       edamUserId |-> r.body.edam_userId,
                       edamExpires |-> r.body.edam_expires,
                       edamNoteStoreUrl |-> r.body.edam_noteStoreUrl,
                       edamWebApiUrlPrefix |-> r.body.edam_webApiUrlPrefix]]

\* authenticate() without its validation of EVERNOTE_CONFIG
authenticateUnvalidated(e, cfg, resp) ==
  LET existingToken == getTokenFromEnv(e)
      requestTokenData == getRequestToken(resp)
  IN
  IF existingToken # Null
  THEN [threw |-> FALSE, error |-> Undefined, value |-> existingToken,
        requested |-> FALSE, opened |-> Undefined]
  ELSE IF requestTokenData.threw
  THEN [threw |-> TRUE, error |-> "RequestTokenError", value |-> Null,
        requested |-> TRUE, opened |-> Undefined]
  ELSE [threw |-> FALSE, error |-> Undefined,
        value |-> [requestToken |-> requestTokenData.token,
                   requestTokenSecret |-> requestTokenData.tokenSecret,
                   needsCallback |-> TRUE],
        requested |-> TRUE, opened |-> requestTokenData.token]

\* authenticate(): value is what it returns, opened the request token of the
\* authorize URL handed to openBrowser, requested whether the provider was called
authenticate(e, cfg, resp) ==
  LET existingToken == getTokenFromEnv(e)
      requestTokenData == getRequestToken(resp)
  IN
  IF existingToken # Null
  THEN [threw |-> FALSE, error |-> Undefined, value |-> existingToken,
        requested |-> FALSE, opened |-> Undefined]
  ELSE IF cfg.consumerKey = "your-consumer-key"
          \/ cfg.consumerSecret = "your-consumer-secret"
  THEN [threw |-> TRUE, error |-> "ConfigurationError", value |-> Null,
        requested |-> FALSE, opened |-> Undefined]
  ELSE IF requestTokenData.threw
  THEN [threw |-> TRUE, error |-> "RequestTokenError", value |-> Null,
        requested |-> TRUE, opened |-> Undefined]
  ELSE [threw |-> FALSE, error |-> Undefined,
        value |-> [requestToken |-> requestTokenData.token,
                   requestTokenSecret |-> requestTokenData.tokenSecret,
                   needsCallback |-> TRUE],
        requested |-> TRUE, opened |-> requestTokenData.token]

\* startServer that never records the pending request token
NeedsCallbackNever(r) == FALSE

\* authResult.needsCallback is truthy
NeedsCallback(r) == "needsCallback" \in DOMAIN r /\ r.needsCallback

\* ----------------------------------------------------------- the .env file
\* the index of the first line of file that sets key, 0 when there is none
FirstLine(file, key) ==
  IF \E i \in 1..Len(file) : file[i].key = key
  THEN CHOOSE i \in 1..Len(file) :
         file[i].key = key /\ \A j \in 1..(i - 1) : file[j].key # key
  ELSE 0

\* one turn of updateEnvFile's loop: replace the first KEY=... line, or append
SetLine(file, key, value) ==
  LET i == FirstLine(file, key) IN
  IF i > 0 THEN [file EXCEPT ![i] = [key |-> key, value |-> value]]
  ELSE Append(file, [key |-> key, value |-> value])

RECURSIVE SetLines(_, _, _)
SetLines(file, tokenVars, i) ==
  IF i > Len(TokenVars) THEN file
  ELSE SetLines(SetLine(file, TokenVars[i], tokenVars[TokenVars[i]]), tokenVars, i + 1)

\* updateEnvFile(tokenData), when reading and writing the file succeed
updateEnvFile(file, tokenData) == SetLines(file, TokenEnv(tokenData), 1)

\* require('dotenv').config() in a fresh process: the last line of a key wins
DotenvConfig(file) ==
  [k \in TokenVarSet |->
     IF \E i \in 1..Len(file) : file[i].key = k
     THEN file[CHOOSE i \in 1..Len(file) :
                 file[i].key = k /\ \A j \in (i + 1)..Len(file) : file[j].key # k].value
     ELSE Undefined]

\* ------------------------------------------------------------ the provider
\* What Evernote's /oauth endpoint may answer to the request-token call.
RequestTokenResponses ==
  {[kind |-> "200", body |-> [oauth_token |-> t, oauth_token_secret |-> s]] :
     t \in {Undefined, "", "RT1"}, s \in {Undefined, "", "rts"}}
  \cup {[kind |-> "http_error", body |-> Null], [kind |-> "network_error", body |-> Null]}

\* What it may answer to the access-token call: a body with or without the
\* token, the secret (absent, empty, set) and the expiry, or no 200 at all.
AccessTokenBody(t, s, x) ==
  [oauth_token |-> t, oauth_token_secret |-> s, edam_expires |-> x,
   edam_shard |-> "s1", edam_userId |-> "42",
   edam_noteStoreUrl |-> "https://www.evernote.com/shard/s1/notestore",
   edam_webApiUrlPrefix |-> "https://www.evernote.com/shard/s1/"]

AccessTokenResponses ==
  {[kind |-> "200", body |-> AccessTokenBody("AT2", "", Undefined)],
   [kind |-> "200", body |-> AccessTokenBody("AT2", "ats", "2")],
   [kind |-> "200", body |-> AccessTokenBody("AT2", Undefined, "2")],
   [kind |-> "200", body |-> AccessTokenBody(Undefined, "ats", "2")],
   [kind |-> "http_error", body |-> Null],
   [kind |-> "network_error", body |-> Null]}

\* --------------------------------------------------- states a process starts in
Configs ==
  {[consumerKey |-> "your-consumer-key", consumerSecret |-> "your-consumer-secret"],
   [consumerKey |-> "ck", consumerSecret |-> "your-consumer-secret"],
   [consumerKey |-> "ck", consumerSecret |-> "cs"]}

\* A credential of an earlier run, as storeTokenInEnv left it in .env.
StoredToken(expires) ==
  [accessToken |-> "AT1", tokenSecret |-> "", edamShard |-> "s1",
   edamUserId |-> "42", edamExpires |-> expires,
   edamNoteStoreUrl |-> "https://www.evernote.com/shard/s1/notestore",
   edamWebApiUrlPrefix |-> "https://www.evernote.com/shard/s1/"]

ConfigLines == <<[key |-> "EVERNOTE_CONSUMER_KEY", value |-> "ck"]>>

\* The .env files a process may find: none, the consumer key alone, or the
\* tokens of an earlier run (no expiry, an expiry at tick 1, a damaged one).
EnvFiles ==
  {<<>>, ConfigLines}
  \cup {updateEnvFile(ConfigLines, StoredToken(x)) : x \in {Undefined, "1", "1x", "never"}}

NoInflight == [i \in 1..MaxInflight |-> Null]

\* The accounts storeTokenInKeychain writes; none has a password at first.
KeychainAccounts == {"access_token", "token_secret", "edam_data"}
NoPasswords == [a \in KeychainAccounts |-> Null]
NoStep == [op |-> "none"]

Init ==
  /\ now = 0
  /\ config \in Configs
  /\ envFile \in EnvFiles
  /\ env = DotenvConfig(envFile)
  /\ pc = "boot"
  /\ authResult = Null
  /\ startupError = Undefined
  /\ browser = Undefined
  /\ oauthState = EmptyMap
  /\ inflight = NoInflight
  /\ searchCache = EmptyMap
  /\ executed = EmptyMap
  /\ keychain = NoPasswords
  /\ storing = Null
  /\ loading = Null
  /\ stored = {}
  /\ last = NoStep

\* ----------------------------------------------------------------- time
Tick ==
  /\ now < MaxTime
  /\ now' = now + 1
  /\ last' = NoStep
  /\ UNCHANGED <<config, env, envFile, pc, authResult, startupError, browser,
                 oauthState, inflight, searchCache, executed>>
  /\ UNCHANGED keychainVars

\* ---------------------------------------------------------- startServer()
\* index.js 519-552, up to the first wait (the prompt or the provider)
StartServerCheck ==
  /\ pc = "boot"
  /\ LET tokenStatus == checkTokenExpiration(env, now) IN
     /\ pc' = IF tokenStatus.isExpired THEN "confirm"
              ELSE IF ~tokenStatus.hasToken THEN "auth"
              ELSE "ready"
     /\ authResult' = IF ~tokenStatus.isExpired /\ tokenStatus.hasToken
                      THEN [needsCallback |-> FALSE] ELSE authResult
     /\ last' = [op |-> "checkTokenExpiration", tokenStatus |-> tokenStatus]
  /\ UNCHANGED <<now, config, env, envFile, startupError, browser, oauthState,
                 inflight, searchCache, executed>>
  /\ UNCHANGED keychainVars

\* index.js 528-543: the user answers the re-authentication prompt
AskUserConfirmation(shouldReauth) ==
  /\ pc = "confirm"
  /\ IF shouldReauth
     THEN /\ env' = clearStoredTokens
          /\ pc' = "auth"
     ELSE /\ pc' = "ready"
          /\ UNCHANGED env
  /\ last' = [op |-> "askUserConfirmation", shouldReauth |-> shouldReauth]
  /\ UNCHANGED <<now, config, envFile, authResult, startupError, browser,
                 oauthState, inflight, searchCache, executed>>
  /\ UNCHANGED keychainVars

\* index.js 537 / 547: authResult = await auth.authenticate(); a throw lands
\* in startServer's catch (572-577), which returns without listening
Authenticate(resp) ==
  /\ pc = "auth"
  /\ LET r == authenticate(env, config, resp) IN
     /\ IF r.threw
        THEN /\ pc' = "failed"
             /\ startupError' = r.error
             /\ UNCHANGED <<authResult, browser>>
        ELSE /\ pc' = "ready"
             /\ authResult' = r.value
             /\ browser' = r.opened
             /\ UNCHANGED startupError
     /\ last' = [op |-> "authenticate", response |-> resp, threw |-> r.threw,
                 error |-> r.error, value |-> r.value,
                 requested |-> r.requested, opened |-> r.opened]
  /\ UNCHANGED <<now, config, env, envFile, oauthState, inflight, searchCache, executed>>
  /\ UNCHANGED keychainVars

\* index.js 554-570: authResult.needsCallback on an undefined authResult is a
\* TypeError, caught like any other startup error
FinishStartup ==
  /\ pc = "ready"
  /\ IF authResult = Null
     THEN /\ pc' = "failed"
          /\ startupError' = "TypeError"
          /\ UNCHANGED oauthState
     ELSE /\ pc' = "listening"
          /\ oauthState' = IF NeedsCallback(authResult)
                           THEN [t \in DOMAIN oauthState \cup {authResult.requestToken} |->
                                   IF t = authResult.requestToken
                                   THEN authResult.requestTokenSecret
                                   ELSE oauthState[t]]
                           ELSE oauthState
          /\ UNCHANGED startupError
  /\ last' = [op |-> "finishStartup"]
  /\ UNCHANGED <<now, config, env, envFile, authResult, browser, inflight, searchCache, executed>>
  /\ UNCHANGED keychainVars

\* startServer() has returned
StartupDone == pc \in {"listening", "failed"}

\* ------------------------------------------------------ GET /oauth/callback
FreeSlots == {i \in 1..MaxInflight : inflight[i] = Null}

\* index.js 78-100: up to the await of auth.handleCallback
CallbackArrive(oauth_token, oauth_verifier) ==
  /\ pc = "listening"
  /\ LET requestTokenSecret == GetProp(oauthState, oauth_token)
         hadEntry == oauth_token \in DOMAIN oauthState
     IN
     IF ~Truthy(oauth_token) \/ ~Truthy(oauth_verifier)
     THEN /\ last' = [op |-> "callback", oauth_token |-> oauth_token,
                      oauth_verifier |-> oauth_verifier, hadEntry |-> hadEntry,
                      status |-> 400, error |-> "Missing OAuth parameters",
                      exchange |-> FALSE]
          /\ UNCHANGED inflight
     ELSE IF ~Truthy(requestTokenSecret)
     THEN /\ last' = [op |-> "callback", oauth_token |-> oauth_token,
                      oauth_verifier |-> oauth_verifier, hadEntry |-> hadEntry,
                      status |-> 400, error |-> "Invalid OAuth state",
                      exchange |-> FALSE]
          /\ UNCHANGED inflight
     ELSE /\ FreeSlots # {}
          /\ LET i == CHOOSE j \in FreeSlots : \A k \in FreeSlots : j <= k IN
             inflight' = [inflight EXCEPT ![i] =
                            [oauth_token |-> oauth_token,
                             oauth_verifier |-> oauth_verifier,
                             requestTokenSecret |-> requestTokenSecret]]
          /\ last' = [op |-> "callback", oauth_token |-> oauth_token,
                      oauth_verifier |-> oauth_verifier, hadEntry |-> hadEntry,
                      status |-> 0, error |-> Undefined, exchange |-> TRUE]
  /\ UNCHANGED <<now, config, env, envFile, pc, authResult, startupError,
                 browser, oauthState, searchCache, executed>>
  /\ UNCHANGED keychainVars

\* storeTokenInEnv that writes the .env file and leaves process.env alone
storeTokenInEnvFileOnly(tokenData, fileOk) ==
  /\ env' = env
  /\ envFile' = IF fileOk THEN updateEnvFile(envFile, tokenData) ELSE envFile

\* storeTokenInEnv(tokenData): the assignments to process.env, then
\* updateEnvFile, which keeps a read or write error to itself
storeTokenInEnv(tokenData, fileOk) ==
  /\ env' = TokenEnv(tokenData)
  /\ envFile' = IF fileOk THEN updateEnvFile(envFile, tokenData) ELSE envFile

\* index.js 100-115 with auth.handleCallback: the provider has answered
CallbackExchangeDone(i, resp, fileOk) ==
  /\ inflight[i] # Null
  /\ LET req == inflight[i]
         r == getAccessToken(resp)
     IN
     /\ IF r.threw
        THEN UNCHANGED <<env, envFile, oauthState>>
        ELSE /\ storeTokenInEnv(r.tokenData, fileOk)
             /\ oauthState' = DeleteKey(oauthState, req.oauth_token)
     /\ last' = [op |-> "callbackDone", oauth_token |-> req.oauth_token,
                 hadEntry |-> req.oauth_token \in DOMAIN oauthState,
                 response |-> resp, threw |-> r.threw, tokenData |-> r.tokenData,
                 written |-> ~r.threw /\ fileOk,
                 status |-> IF r.threw THEN 500 ELSE 200]
  /\ inflight' = [inflight EXCEPT ![i] = Null]
  /\ UNCHANGED <<now, config, pc, authResult, startupError, browser, searchCache, executed>>
  /\ UNCHANGED keychainVars

\* ------------------------------------------------------ strings and numbers
\* haystack.includes(needle)
Includes(haystack, needle) ==
  \E i \in 1..(Len(haystack) - Len(needle) + 1) :
    SubSeq(haystack, i, i + Len(needle) - 1) = needle

RECURSIVE Join(_, _)
\* terms.join(sep)
Join(terms, sep) ==
  IF terms = <<>> THEN ""
  ELSE IF Len(terms) = 1 THEN terms[1]
  ELSE terms[1] \o sep \o Join(Tail(terms), sep)

RECURSIVE NatToString(_, _)
\* n.toString(radix) for n >= 0 and radix <= 36
NatToString(n, radix) ==
  LET alphabet == "0123456789abcdefghijklmnopqrstuvwxyz"
      d == SubSeq(alphabet, (n % radix) + 1, (n % radix) + 1)
  IN IF n < radix THEN d ELSE NatToString(n \div radix, radix) \o d

IntToString(n) == IF n < 0 THEN "-" \o NatToString(0 - n, 10) ELSE NatToString(n, 10)

\* The printable ASCII characters: codes 32..95 and 97..126 (a string of the
\* model cannot hold the grave accent, code 96).
AsciiLow == " !\"#$%&'()*+,-./0123456789:;<=>?@ABCDEFGHIJKLMNOPQRSTUVWXYZ[\\]^_"
AsciiHigh == "abcdefghijklmnopqrstuvwxyz{|}~"

\* the code of every character of the two strings
CharCodes ==
  [c \in {SubSeq(AsciiLow, i, i) : i \in 1..Len(AsciiLow)}
          \cup {SubSeq(AsciiHigh, i, i) : i \in 1..Len(AsciiHigh)} |->
     IF \E i \in 1..Len(AsciiLow) : SubSeq(AsciiLow, i, i) = c
     THEN 31 + (CHOOSE i \in 1..Len(AsciiLow) : SubSeq(AsciiLow, i, i) = c)
     ELSE 96 + (CHOOSE i \in 1..Len(AsciiHigh) : SubSeq(AsciiHigh, i, i) = c)]

\* c.charCodeAt(0)
charCodeAt(c) == CharCodes[c]

\* ------------------------------------------------------- tool arguments
\* An argument object is a record of the fields the caller supplied.
Has(args, k) == k \in DOMAIN args
\* a string or number field is truthy; an array is truthy whenever present
TruthyStr(args, k) == Has(args, k) /\ args[k] # ""
TruthyNum(args, k) == Has(args, k) /\ args[k] # 0
StrOrEmpty(args, k) == IF TruthyStr(args, k) THEN args[k] ELSE ""
NumOr(args, k, dflt) == IF TruthyNum(args, k) THEN args[k] ELSE dflt
Min(a, b) == IF a < b THEN a ELSE b

\* createMCPResponse(status, data, error)
createMCPResponse(status, data, error) ==
  [status |-> status, data |-> data, error |-> error]

\* ------------------------------------------------------ buildSearchQuery
\* YYYY-MM-DD with a month of 01..12 and a day of 01..28
IsIsoDate(s) ==
  /\ Len(s) = 10
  /\ \A i \in {1, 2, 3, 4, 6, 7, 9, 10} : IsDigit(SubSeq(s, i, i))
  /\ SubSeq(s, 5, 5) = "-" /\ SubSeq(s, 8, 8) = "-"
  /\ parseInt(SubSeq(s, 6, 7)).val \in 1..12
  /\ parseInt(SubSeq(s, 9, 10)).val \in 1..28

\* YYYY-MM-DDTHH:MM:SSZ, a time of day in UTC
IsIsoDateTime(s) ==
  /\ Len(s) = 20
  /\ IsIsoDate(SubSeq(s, 1, 10))
  /\ SubSeq(s, 11, 11) = "T" /\ SubSeq(s, 14, 14) = ":"
  /\ SubSeq(s, 17, 17) = ":" /\ SubSeq(s, 20, 20) = "Z"
  /\ \A i \in {12, 13, 15, 16, 18, 19} : IsDigit(SubSeq(s, i, i))
  /\ parseInt(SubSeq(s, 12, 13)).val \in 0..23
  /\ parseInt(SubSeq(s, 15, 16)).val \in 0..59
  /\ parseInt(SubSeq(s, 18, 19)).val \in 0..59

\* new Date(s).toISOString().split('T')[0]: the UTC calendar date of s;
\* toISOString throws on an invalid date
DateOnly(s) ==
  IF IsIsoDate(s) THEN [threw |-> FALSE, date |-> s]
  ELSE IF IsIsoDateTime(s) THEN [threw |-> FALSE, date |-> SubSeq(s, 1, 10)]
  ELSE [threw |-> TRUE, date |-> Undefined]

RECURSIVE TagTerms(_)
TagTerms(tags) ==
  IF tags = <<>> THEN <<>>
  ELSE <<"tag:\"" \o tags[1] \o "\"">> \o TagTerms(Tail(tags))

\* buildSearchQuery with the tag clauses ahead of the notebook clause
buildSearchQueryTagsFirst(args) ==
  LET created == IF TruthyStr(args, "createdAfter") THEN DateOnly(args.createdAfter)
                 ELSE [threw |-> FALSE, date |-> Undefined]
      updated == IF TruthyStr(args, "updatedAfter") THEN DateOnly(args.updatedAfter)
                 ELSE [threw |-> FALSE, date |-> Undefined]
      searchTerms ==
        (IF TruthyStr(args, "query") THEN <<args.query>> ELSE <<>>)
        \o (IF Has(args, "tags") THEN TagTerms(args.tags) ELSE <<>>)
        \o (IF TruthyStr(args, "notebookName")
            THEN <<"notebook:\"" \o args.notebookName \o "\"">> ELSE <<>>)
        \o (IF TruthyStr(args, "createdAfter") /\ ~created.threw
            THEN <<"created:" \o created.date>> ELSE <<>>)
        \o (IF TruthyStr(args, "updatedAfter") /\ ~updated.threw
            THEN <<"updated:" \o updated.date>> ELSE <<>>)
  IN IF created.threw \/ updated.threw
     THEN [threw |-> TRUE, message |-> "Invalid time value", query |-> Undefined]
     ELSE [threw |-> FALSE, message |-> Undefined, query |-> Join(searchTerms, " ")]

\* buildSearchQuery(args)
buildSearchQuery(args) ==
  LET created == IF TruthyStr(args, "createdAfter") THEN DateOnly(args.createdAfter)
                 ELSE [threw |-> FALSE, date |-> Undefined]
      updated == IF TruthyStr(args, "updatedAfter") THEN DateOnly(args.updatedAfter)
                 ELSE [threw |-> FALSE, date |-> Undefined]
      searchTerms ==
        (IF TruthyStr(args, "query") THEN <<args.query>> ELSE <<>>)
        \o (IF TruthyStr(args, "notebookName")
            THEN <<"notebook:\"" \o args.notebookName \o "\"">> ELSE <<>>)
        \o (IF Has(args, "tags") THEN TagTerms(args.tags) ELSE <<>>)
        \o (IF TruthyStr(args, "createdAfter") /\ ~created.threw
            THEN <<"created:" \o created.date>> ELSE <<>>)
        \o (IF TruthyStr(args, "updatedAfter") /\ ~updated.threw
            THEN <<"updated:" \o updated.date>> ELSE <<>>)
  IN IF created.threw \/ updated.threw
     THEN [threw |-> TRUE, message |-> "Invalid time value", query |-> Undefined]
     ELSE [threw |-> FALSE, message |-> Undefined, query |-> Join(searchTerms, " ")]

\* ---------------------------------------------------------- the NoteStore
\* What a NoteStore call may do: answer with a body, or fail with the message
\* of the error makeNoteStoreRequest rejects with.
UpstreamOk(body) == [kind |-> "ok", body |-> body, message |-> Undefined]
UpstreamError(message) == [kind |-> "error", body |-> Null, message |-> message]

\* makeNoteStoreRequest(method, data, tokenData): no call at all without a
\* note store URL
makeNoteStoreRequest(tokenData, up) ==
  IF ~Truthy(tokenData.edamNoteStoreUrl)
  THEN [threw |-> TRUE, called |-> FALSE,
        message |-> "Note store URL not available in token data", body |-> Null]
  ELSE IF up.kind = "ok"
  THEN [threw |-> FALSE, called |-> TRUE, message |-> Undefined, body |-> up.body]
  ELSE [threw |-> TRUE, called |-> TRUE, message |-> up.message, body |-> Null]

\* errorCodeNames of makeNoteStoreRequest: the name of EDAMErrorCode n
ErrorCodeNames ==
  <<"UNKNOWN", "BAD_DATA_FORMAT", "PERMISSION_DENIED", "INTERNAL_ERROR",
    "DATA_REQUIRED", "LIMIT_REACHED", "QUOTA_REACHED", "INVALID_AUTH",
    "AUTH_EXPIRED", "DATA_CONFLICT", "ENML_VALIDATION", "SHARD_UNAVAILABLE",
    "LEN_TOO_SHORT", "LEN_TOO_LONG", "TOO_FEW", "TOO_MANY",
    "UNSUPPORTED_OPERATION", "TAKEN_DOWN", "RATE_LIMIT_REACHED",
    "BUSINESS_SECURITY_LOGIN_REQUIRED", "DEVICE_LIMIT_REACHED",
    "OPENID_ALREADY_TAKEN", "INVALID_OPENID_TOKEN", "USER_NOT_ASSOCIATED",
    "USER_NOT_REGISTERED", "USER_ALREADY_ASSOCIATED", "ACCOUNT_CLEAR",
    "SSO_AUTHENTICATION_REQUIRED">>

\* the catch block of makeNoteStoreRequest: the message of the Error it
\* throws for the error callThriftMethod rejected with (errorCode 0: none)
ThriftFailure(error) ==
  IF error.name = "EDAMUserException" /\ error.errorCode # 0
  THEN "EDAMUserException: "
       \o (IF error.errorCode \in 1..Len(ErrorCodeNames)
           THEN ErrorCodeNames[error.errorCode]
           ELSE "UNKNOWN_CODE_" \o IntToString(error.errorCode))
       \o (IF Truthy(error.parameter) THEN " (" \o error.parameter \o ")" ELSE "")
  ELSE "Thrift API Error: "
       \o (IF error.message = Undefined THEN "undefined" ELSE error.message)

\* What callThriftMethod may reject with, and why: the provider refuses the
\* token (with and without the optional parameter field), the provider cannot
\* be reached, the note does not exist (an EDAMNotFoundException, whose
\* message is the one the generated Thrift code gives it, or none).
ThriftErrors ==
  {[cause |-> "authentication", name |-> "EDAMUserException", errorCode |-> code,
    parameter |-> parameter, message |-> Undefined] :
     code \in {8, 9}, parameter \in {Undefined, "authenticationToken"}}
  \cup {[cause |-> "unreachable", name |-> "Error", errorCode |-> 0,
         parameter |-> Undefined, message |-> message] :
          message \in {"getaddrinfo ENOTFOUND www.evernote.com",
                       "connect ECONNREFUSED 127.0.0.1:443"}}
  \cup {[cause |-> "missing note", name |-> "EDAMNotFoundException", errorCode |-> 0,
         parameter |-> Undefined, message |-> message] :
          message \in {Undefined, "EDAMNotFoundException"}}

\* the provider has no note of the guid: what getNote is rejected with
NoteNotFound ==
  [cause |-> "missing note", name |-> "EDAMNotFoundException", errorCode |-> 0,
   parameter |-> Undefined, message |-> "EDAMNotFoundException"]

\* the catch block of createSearch
SearchErrorMessage(message) ==
  IF Includes(message, "authentication")
  THEN "Evernote authentication failed. Please re-authenticate."
  ELSE IF Includes(message, "quota")
  THEN "Evernote API quota exceeded. Please try again later."
  ELSE IF Includes(message, "network") \/ Includes(message, "ENOTFOUND")
  THEN "Network error connecting to Evernote. Please check your internet connection."
  ELSE "Search failed: " \o message

\* the catch blocks of getNote and getNoteContent
NoteErrorMessage(message, noteGuid, prefix) ==
  IF Includes(message, "authentication")
  THEN "Evernote authentication failed. Please re-authenticate."
  ELSE IF Includes(message, "not found") \/ Includes(message, "404")
  THEN "Note with GUID " \o noteGuid \o " not found or has been deleted."
  ELSE IF Includes(message, "quota")
  THEN "Evernote API quota exceeded. Please try again later."
  ELSE IF Includes(message, "network") \/ Includes(message, "ENOTFOUND")
  THEN "Network error connecting to Evernote. Please check your internet connection."
  ELSE prefix \o message

NoRequest == [sent |-> FALSE]

\* notes.map(note => ({ guid, title: note.title || 'Untitled', ... }))
SearchResults(notes) ==
  [i \in 1..Len(notes) |->
     [guid |-> notes[i].guid,
      title |-> IF Truthy(notes[i].title) THEN notes[i].title ELSE "Untitled"]]

\* What a tool hands back: threw is a throw to the caller (with message),
\* request what was sent to the NoteStore, response the MCP response.
ToolThrow(message) ==
  [threw |-> TRUE, request |-> NoRequest, response |-> Null, message |-> message]
ToolReturn(request, response) ==
  [threw |-> FALSE, request |-> request, response |-> response, message |-> Undefined]

\* the requestData of createSearch
SearchRequest(args, tokenData, searchQuery) ==
  [sent |-> TRUE, method |-> "findNotesMetadata",
   authenticationToken |-> tokenData.accessToken,
   words |-> searchQuery,
   notebookGuid |-> IF TruthyStr(args, "notebookGuid") THEN args.notebookGuid
                    ELSE Undefined,
   offset |-> NumOr(args, "offset", 0),
   maxNotes |-> Min(NumOr(args, "maxResults", 20), 100)]

\* createSearch from the NoteStore call on: r is what makeNoteStoreRequest did
SearchAnswer(args, tokenData, searchQuery, r) ==
  IF r.threw
  THEN ToolReturn(IF r.called THEN SearchRequest(args, tokenData, searchQuery)
                  ELSE NoRequest,
                  createMCPResponse("error", Null, SearchErrorMessage(r.message)))
  ELSE ToolReturn(SearchRequest(args, tokenData, searchQuery),
                  createMCPResponse("success",
                    [results |-> SearchResults(r.body.notes),
                     totalFound |-> r.body.totalNotes,
                     query |-> searchQuery,
                     offset |-> NumOr(args, "offset", 0),
                     maxResults |-> Min(NumOr(args, "maxResults", 20), 100)],
                    Null))

\* the try block of createSearch: q is what buildSearchQuery did
SearchTry(args, tokenData, up, q) ==
  IF q.threw
  THEN ToolReturn(NoRequest,
                  createMCPResponse("error", Null, SearchErrorMessage(q.message)))
  ELSE SearchAnswer(args, tokenData, q.query, makeNoteStoreRequest(tokenData, up))

\* createSearch(args, tokenData)
createSearch(args, tokenData, up) ==
  IF ~TruthyStr(args, "query") /\ ~TruthyStr(args, "notebookName") /\ ~Has(args, "tags")
  THEN ToolThrow("At least one search criteria must be provided (query, notebookName, or tags)")
  ELSE SearchTry(args, tokenData, up, buildSearchQuery(args))

\* the requestData of getNote and of getNoteContent
NoteRequest(args, tokenData, withContent) ==
  [sent |-> TRUE, method |-> "getNote",
   authenticationToken |-> tokenData.accessToken,
   guid |-> args.noteGuid, withContent |-> withContent]

\* getNote from the NoteStore call on
NoteAnswer(args, tokenData, r) ==
  IF r.threw
  THEN ToolReturn(IF r.called THEN NoteRequest(args, tokenData, FALSE) ELSE NoRequest,
                  createMCPResponse("error", Null,
                    NoteErrorMessage(r.message, args.noteGuid,
                                     "Failed to retrieve note: ")))
  ELSE ToolReturn(NoteRequest(args, tokenData, FALSE),
                  createMCPResponse("success",
                    [guid |-> r.body.guid,
                     title |-> IF Truthy(r.body.title) THEN r.body.title
                               ELSE "Untitled"],
                    Null))

\* getNote(args, tokenData): the metadata of one note
getNote(args, tokenData, up) ==
  IF ~TruthyStr(args, "noteGuid")
  THEN ToolReturn(NoRequest, createMCPResponse("error", Null, "noteGuid is required"))
  ELSE NoteAnswer(args, tokenData, makeNoteStoreRequest(tokenData, up))

\* ------------------------------------------------- enmlToPlainText, enmlToHtml
\* A note body is a sequence of characters, each a string of length one; the
\* three characters that a string of the model cannot hold are named.
CheckedBox == "U+2611"
UncheckedBox == "U+2610"
Bullet == "U+2022"

\* the characters of an ASCII string
Chars(str) == [i \in 1..Len(str) |-> SubSeq(str, i, i)]

\* \s of a regular expression, for the characters of the model's documents,
\* and the characters its dot does not match
Whitespace == {" ", "\t", "\n", "\r"}
LineTerminators == {"\n", "\r"}
Quotes == {"\"", "'"}

UpperCase == "ABCDEFGHIJKLMNOPQRSTUVWXYZ"
LowerCase == "abcdefghijklmnopqrstuvwxyz"
\* the i flag: characters are compared in lower case
Lower(c) ==
  IF \E k \in 1..Len(UpperCase) : SubSeq(UpperCase, k, k) = c
  THEN LET k == CHOOSE n \in 1..Len(UpperCase) : SubSeq(UpperCase, n, n) = c
       IN SubSeq(LowerCase, k, k)
  ELSE c

\* the literal lit (in lower case when ignoreCase) stands at position i of enml
MatchesAt(enml, i, lit, ignoreCase) ==
  /\ i >= 1
  /\ i + Len(lit) - 1 <= Len(enml)
  /\ \A k \in 1..Len(lit) :
       (IF ignoreCase THEN Lower(enml[i + k - 1]) ELSE enml[i + k - 1]) = lit[k]

\* the first position from `from` on whose character is in set, 0 if none
FirstOf(enml, from, set) ==
  IF \E j \in from..Len(enml) : enml[j] \in set
  THEN CHOOSE j \in from..Len(enml) :
         enml[j] \in set /\ \A k \in from..(j - 1) : enml[k] \notin set
  ELSE 0

\* the first position from `from` on whose character is not in set
\* (Len(enml) + 1 if none): where a greedy run of set's characters ends
RunEnd(enml, from, set) ==
  IF \E j \in from..Len(enml) : enml[j] \notin set
  THEN CHOOSE j \in from..Len(enml) :
         enml[j] \notin set /\ \A k \in from..(j - 1) : enml[k] \in set
  ELSE Len(enml) + 1

\* where the match of  attr=["']value[^"']*["'][^>]*>  that starts at k ends,
\* 0 if there is none: the quoted run may hold any character but a quote
AttributeEnd(enml, k, attr, value) ==
  IF /\ MatchesAt(enml, k, attr, TRUE)
     /\ k + Len(attr) <= Len(enml)
     /\ enml[k + Len(attr)] \in Quotes
     /\ MatchesAt(enml, k + Len(attr) + 1, value, TRUE)
     /\ FirstOf(enml, k + Len(attr) + 1 + Len(value), Quotes) # 0
  THEN FirstOf(enml, FirstOf(enml, k + Len(attr) + 1 + Len(value), Quotes) + 1, {">"})
  ELSE 0

\* where the greedy [^>]* after <en-media ends (i is where the tag starts):
\* the last place before the tag's first > at which the attribute matches
AttributeStart(enml, i, attr, value) ==
  LET limit == IF FirstOf(enml, i + 9, {">"}) = 0 THEN Len(enml)
               ELSE FirstOf(enml, i + 9, {">"})
      starts == {k \in (i + 9)..limit : AttributeEnd(enml, k, attr, value) # 0}
  IN IF starts = {} THEN 0 ELSE CHOOSE k \in starts : \A n \in starts : n <= k

\* a checked attribute that is never recognised
CheckedEndNever(enml, k) == 0

\* where the match of  \s+checked=["']true["'][^>]*>  that starts at k ends
CheckedEnd(enml, k) ==
  IF /\ RunEnd(enml, k, Whitespace) > k
     /\ MatchesAt(enml, RunEnd(enml, k, Whitespace), Chars("checked="), TRUE)
     /\ RunEnd(enml, k, Whitespace) + 13 <= Len(enml)
     /\ enml[RunEnd(enml, k, Whitespace) + 8] \in Quotes
     /\ MatchesAt(enml, RunEnd(enml, k, Whitespace) + 9, Chars("true"), TRUE)
     /\ enml[RunEnd(enml, k, Whitespace) + 13] \in Quotes
  THEN FirstOf(enml, RunEnd(enml, k, Whitespace) + 14, {">"})
  ELSE 0

\* where the match of  [^>]*>.*?<\/en-crypt>  that starts at k ends: the dot
\* does not match a line terminator
CryptEnd(enml, k) ==
  LET open == FirstOf(enml, k, {">"})
      closes == {e \in (open + 1)..Len(enml) : MatchesAt(enml, e, Chars("</en-crypt>"), TRUE)}
  IN IF open = 0 \/ closes = {} THEN 0
     ELSE LET close == CHOOSE e \in closes : \A n \in closes : e <= n
          IN IF \E j \in (open + 1)..(close - 1) : enml[j] \in LineTerminators
             THEN 0 ELSE close + 10

\* where the match of  \n\s*\n\s*\n  that starts at i ends: the last of the
\* newlines of the whitespace run, if the run holds three
NewlinesEnd(enml, i) ==
  LET newlines == {j \in i..(RunEnd(enml, i, Whitespace) - 1) : enml[j] = "\n"}
  IN IF enml[i] = "\n" /\ Cardinality(newlines) >= 3
     THEN CHOOSE j \in newlines : \A n \in newlines : n <= j
     ELSE 0

\* Patterns: a tag is  prefix[^>]*>  for one of its prefixes, a literal one of
\* its strings; the others are named:
\*   xml           <\?xml[^>]*\?>
\*   br            <br\s*\/?>
\*   media alt     <en-media[^>]*alt=["']([^"']*)["'][^>]*>
\*   media image   <en-media([^>]*type=["']image[^"']*["'][^>]*)>
\*   crypt         <en-crypt[^>]*>.*?<\/en-crypt>
\*   todo checked  <en-todo\s+checked=["']true["'][^>]*>
\*   newlines      \n\s*\n\s*\n
\*   trim          ^\s+|\s+$
\*   spaces        [ \t]+
Tag(prefixes) == [kind |-> "tag", literals |-> {Chars(p) : p \in prefixes}]
Literal(strings, ignoreCase) ==
  [kind |-> IF ignoreCase THEN "literal/i" ELSE "literal",
   literals |-> {Chars(str) : str \in strings}]
Pattern(kind) == [kind |-> kind, literals |-> {}]

\* where the match of pattern at position i of enml ends, 0 if there is none
MatchEnd(pattern, enml, i) ==
  CASE pattern.kind = "tag" ->
         IF \E p \in pattern.literals : MatchesAt(enml, i, p, TRUE)
         THEN FirstOf(enml, i + Len(CHOOSE p \in pattern.literals :
                                      MatchesAt(enml, i, p, TRUE)), {">"})
         ELSE 0
    [] pattern.kind \in {"literal", "literal/i"} ->
         IF \E p \in pattern.literals : MatchesAt(enml, i, p, pattern.kind = "literal/i")
         THEN i - 1 + Len(CHOOSE p \in pattern.literals :
                            MatchesAt(enml, i, p, pattern.kind = "literal/i"))
         ELSE 0
    [] pattern.kind = "xml" ->
         IF /\ MatchesAt(enml, i, Chars("<?xml"), TRUE)
            /\ FirstOf(enml, i + 5, {">"}) > i + 5
            /\ enml[FirstOf(enml, i + 5, {">"}) - 1] = "?"
         THEN FirstOf(enml, i + 5, {">"}) ELSE 0
    [] pattern.kind = "br" ->
         IF ~MatchesAt(enml, i, Chars("<br"), TRUE) THEN 0
         ELSE IF MatchesAt(enml, RunEnd(enml, i + 3, Whitespace), <<">">>, FALSE)
         THEN RunEnd(enml, i + 3, Whitespace)
         ELSE IF MatchesAt(enml, RunEnd(enml, i + 3, Whitespace), <<"/", ">">>, FALSE)
         THEN RunEnd(enml, i + 3, Whitespace) + 1
         ELSE 0
    [] pattern.kind = "media alt" ->
         IF MatchesAt(enml, i, Chars("<en-media"), TRUE)
            /\ AttributeStart(enml, i, Chars("alt="), <<>>) # 0
         THEN AttributeEnd(enml, AttributeStart(enml, i, Chars("alt="), <<>>),
                           Chars("alt="), <<>>)
         ELSE 0
    [] pattern.kind = "media image" ->
         IF MatchesAt(enml, i, Chars("<en-media"), TRUE)
            /\ AttributeStart(enml, i, Chars("type="), Chars("image")) # 0
         THEN AttributeEnd(enml, AttributeStart(enml, i, Chars("type="), Chars("image")),
                           Chars("type="), Chars("image"))
         ELSE 0
    [] pattern.kind = "crypt" ->
         IF MatchesAt(enml, i, Chars("<en-crypt"), TRUE) THEN CryptEnd(enml, i + 9) ELSE 0
    [] pattern.kind = "todo checked" ->
         IF MatchesAt(enml, i, Chars("<en-todo"), TRUE) THEN CheckedEnd(enml, i + 8) ELSE 0
    [] pattern.kind = "newlines" -> NewlinesEnd(enml, i)
    [] pattern.kind = "spaces" ->
         IF enml[i] \in {" ", "\t"} THEN RunEnd(enml, i, {" ", "\t"}) - 1 ELSE 0

\* what a match at i is replaced with: $1 is the group of the pattern
Replacement(rule, enml, i) ==
  IF rule.pattern.kind = "media alt"
  THEN SubSeq(enml, AttributeStart(enml, i, Chars("alt="), <<>>) + 5,
              FirstOf(enml, AttributeStart(enml, i, Chars("alt="), <<>>) + 5, Quotes) - 1)
  ELSE IF rule.pattern.kind = "media image"
  THEN Chars("<img") \o SubSeq(enml, i + 9, MatchEnd(rule.pattern, enml, i) - 1)
       \o Chars(" alt=\"Evernote Image\" style=\"max-width: 100%;\">")
  ELSE rule.with

\* the string without its leading and its trailing whitespace: /^\s+|\s+$/g
Trim(text) ==
  LET first == RunEnd(text, 1, Whitespace)
      kept == {j \in 1..Len(text) : text[j] \notin Whitespace}
  IN IF kept = {} THEN <<>>
     ELSE SubSeq(text, first, CHOOSE j \in kept : \A n \in kept : n <= j)

RECURSIVE Replace(_, _)
\* enml.replace(pattern, with) with the g flag: the matches from left to right
Replace(enml, rule) ==
  LET starts == {i \in 1..Len(enml) : MatchEnd(rule.pattern, enml, i) # 0} IN
  IF starts = {} THEN enml
  ELSE LET i == CHOOSE n \in starts : \A m \in starts : n <= m IN
       SubSeq(enml, 1, i - 1) \o Replacement(rule, enml, i)
       \o Replace(SubSeq(enml, MatchEnd(rule.pattern, enml, i) + 1, Len(enml)), rule)

RECURSIVE ReplaceAll(_, _)
\* the chain of replace calls (no pattern matches in the empty string)
ReplaceAll(enml, rules) ==
  IF enml = <<>> \/ rules = <<>> THEN enml
  ELSE ReplaceAll(IF Head(rules).pattern.kind = "trim" THEN Trim(enml)
                  ELSE Replace(enml, Head(rules)),
                  Tail(rules))

Rule(pattern, with) == [pattern |-> pattern, with |-> with]

\* .replace(/&nbsp;/g, ' ') ... .replace(/&apos;/g, "'")
Entities ==
  <<Rule(Literal({"&nbsp;"}, FALSE), <<" ">>),
    Rule(Literal({"&amp;"}, FALSE), <<"&">>),
    Rule(Literal({"&lt;"}, FALSE), <<"<">>),
    Rule(Literal({"&gt;"}, FALSE), <<">">>),
    Rule(Literal({"&quot;"}, FALSE), <<"\"">>),
    Rule(Literal({"&#39;"}, FALSE), <<"'">>),
    Rule(Literal({"&apos;"}, FALSE), <<"'">>)>>

Headings == {"1", "2", "3", "4", "5", "6"}

\* the chain of enmlToPlainText
PlainTextOf(enml) ==
  ReplaceAll(enml,
    <<Rule(Tag({"<!doctype"}), <<>>),
      Rule(Pattern("xml"), <<>>),
      Rule(Tag({"<en-note", "</en-note"}), <<>>),
      Rule(Pattern("media alt"), <<>>),
      Rule(Tag({"<en-media"}), Chars("[Media]")),
      Rule(Pattern("crypt"), Chars("[Encrypted Content]")),
      Rule(Pattern("todo checked"), <<CheckedBox, " ">>),
      Rule(Tag({"<en-todo"}), <<UncheckedBox, " ">>),
      Rule(Pattern("br"), <<"\n">>),
      Rule(Literal({"</p>"}, TRUE), <<"\n", "\n">>),
      Rule(Tag({"<p"}), <<>>),
      Rule(Literal({"</div>"}, TRUE), <<"\n">>),
      Rule(Tag({"<div"}), <<>>),
      Rule(Literal({"</h" \o n \o ">" : n \in Headings}, TRUE), <<"\n", "\n">>),
      Rule(Tag({"<h" \o n : n \in Headings}), <<>>),
      Rule(Literal({"</li>"}, TRUE), <<"\n">>),
      Rule(Tag({"<li"}), <<Bullet, " ">>),
      Rule(Tag({"<ul", "<ol", "</ul", "</ol"}), <<"\n">>),
      Rule(Literal({"</td>"}, TRUE), <<"\t">>),
      Rule(Literal({"</tr>"}, TRUE), <<"\n">>),
      Rule(Tag({"<td", "<th", "<tr"}), <<>>),
      Rule(Tag({"<table", "</table"}), <<"\n">>),
      Rule(Tag({"<"}), <<>>)>>
    \o Entities
    \o <<Rule(Pattern("newlines"), <<"\n", "\n">>),
         Rule(Pattern("trim"), <<>>),
         Rule(Pattern("spaces"), <<" ">>)>>)

\* the chain of enmlToHtml
HtmlOf(enml) ==
  ReplaceAll(enml,
    <<Rule(Tag({"<!doctype"}), <<>>),
      Rule(Pattern("xml"), <<>>),
      Rule(Tag({"<en-note"}), Chars("<div class=\"note-content\">")),
      Rule(Literal({"</en-note>"}, TRUE), Chars("</div>")),
      Rule(Pattern("media image"), <<>>),
      Rule(Tag({"<en-media"}),
           Chars("<div class=\"media-placeholder\">[Media Attachment]</div>")),
      Rule(Pattern("crypt"),
           Chars("<div class=\"encrypted-content\">[Encrypted Content]</div>")),
      Rule(Pattern("todo checked"),
           Chars("<input type=\"checkbox\" checked disabled> ")),
      Rule(Tag({"<en-todo"}), Chars("<input type=\"checkbox\" disabled> "))>>
    \o Entities)

\* ------------------------------------------------------------ note bodies
\* the root wrapper around a body
EnNote(body) == Chars("<en-note>") \o body \o Chars("</en-note>")

\* a checked checklist marker in the two forms of an empty element
CheckedMarkers ==
  {Chars("<en-todo checked=\"true\"/>"), Chars("<en-todo checked='true'></en-todo>")}

\* what a paragraph may hold: words, a run of blanks, nothing, blanks around
\* the words, an entity
ParagraphTexts ==
  {Chars("Buy milk"), Chars("x"), Chars("a  b"), <<>>, Chars(" eggs "), Chars("R&amp;D")}

\* a document of the root wrapper, a checklist marker and one paragraph
TodoDocument(marker, text) == EnNote(marker \o Chars("<p>") \o text \o Chars("</p>"))

\* the content of an encrypted section, base64 on one line and on two; every
\* one starts with SecretStart
SecretStart == Chars("c2Vj")
Secrets == {SecretStart \o Chars("cmV0"), SecretStart \o Chars("\ncmV0")}

\* a document with an encrypted section between two pieces of text
CryptDocument(opening, secret) ==
  EnNote(Chars("a") \o opening \o secret \o Chars("</en-crypt>") \o Chars("b"))

CryptOpenings == {Chars("<en-crypt>"), Chars("<en-crypt hint=\"h\" cipher=\"AES\">")}

\* a document whose text is the escape of an escape: &amp;lt; stands for the
\* four characters &lt; and &amp;amp; for the five characters &amp;
EscapedEscapes == {Chars("&amp;lt;"), Chars("&amp;amp;")}

\* the note bodies the provider answers with
NoteContents ==
  {TodoDocument(marker, text) : marker \in CheckedMarkers, text \in ParagraphTexts}
  \cup {TodoDocument(Chars("<en-todo/>"), Chars("x"))}
  \cup {CryptDocument(opening, secret) : opening \in CryptOpenings, secret \in Secrets}
  \cup {EnNote(text) : text \in EscapedEscapes}
  \cup {<<>>,
        Chars("<?xml version=\"1.0\"?><!DOCTYPE en-note SYSTEM \"x.dtd\">\n")
          \o EnNote(Chars("Hi<br/>there<BR >!")),
        EnNote(Chars("<en-media type=\"image/png\" alt=\"cat\"/><en-media hash=\"1\"/>")),
        EnNote(Chars("<div>&lt;b&gt; &quot;q&quot; &#39;s&apos; a&nbsp;b</div>\n\n \n\n x \t y")),
        EnNote(Chars("<ul><li>one</li></ul><h2 id=\"a\">T</h2><table><tr><td>1</td><th>2</th></tr></table>"))}

PlainTexts == [enml \in NoteContents |-> PlainTextOf(enml)]
Htmls == [enml \in NoteContents |-> HtmlOf(enml)]

\* enmlToPlainText(enml) and enmlToHtml(enml), for the bodies above
enmlToPlainText(enml) == PlainTexts[enml]
enmlToHtml(enml) == Htmls[enml]

\* const format = args.format || 'text'
NoteFormat(args) == IF TruthyStr(args, "format") THEN args.format ELSE "text"

ContentType(format) ==
  IF format = "enml" THEN "application/enml+xml"
  ELSE IF format = "html" THEN "text/html"
  ELSE "text/plain"

\* a switch (format) with its default branch alone
ProcessedContentText(format, content) == enmlToPlainText(content)

\* switch (format): the content field of the result (format is one of the
\* three here)
ProcessedContent(format, content) ==
  IF format = "enml" THEN content
  ELSE IF format = "html" THEN enmlToHtml(content)
  ELSE enmlToPlainText(content)

\* getNoteContent from the NoteStore call on
ContentAnswer(args, tokenData, r) ==
  IF r.threw
  THEN ToolReturn(IF r.called THEN NoteRequest(args, tokenData, TRUE) ELSE NoRequest,
                  createMCPResponse("error", Null,
                    NoteErrorMessage(r.message, args.noteGuid,
                                     "Failed to retrieve note content: ")))
  ELSE ToolReturn(NoteRequest(args, tokenData, TRUE),
                  createMCPResponse("success",
                    [guid |-> r.body.guid,
                     title |-> IF Truthy(r.body.title) THEN r.body.title
                               ELSE "Untitled",
                     content |-> ProcessedContent(NoteFormat(args), r.body.content),
                     contentType |-> ContentType(NoteFormat(args)),
                     format |-> NoteFormat(args)],
                    Null))

\* getNoteContent(args, tokenData): validation, the NoteStore call and the
\* envelope of the answer
getNoteContent(args, tokenData, up) ==
  IF ~TruthyStr(args, "noteGuid")
  THEN ToolReturn(NoRequest, createMCPResponse("error", Null, "noteGuid is required"))
  ELSE IF NoteFormat(args) \notin {"text", "html", "enml"}
  THEN ToolReturn(NoRequest,
                  createMCPResponse("error", Null,
                                    "format must be one of: text, html, enml"))
  ELSE ContentAnswer(args, tokenData, makeNoteStoreRequest(tokenData, up))

\* ------------------------------------------------------- generateSearchId
JsonString(str) == "\"" \o str \o "\""

RECURSIVE JsonStrings(_)
JsonStrings(list) ==
  IF list = <<>> THEN ""
  ELSE IF Len(list) = 1 THEN JsonString(list[1])
  ELSE JsonString(list[1]) \o "," \o JsonStrings(Tail(list))

\* JSON.stringify of the argument object with maxResults and offset as the
\* caller wrote them, null when omitted
SearchStringRaw(args) ==
  "{\"query\":" \o JsonString(StrOrEmpty(args, "query"))
  \o ",\"notebookName\":" \o JsonString(StrOrEmpty(args, "notebookName"))
  \o ",\"notebookGuid\":" \o JsonString(StrOrEmpty(args, "notebookGuid"))
  \o ",\"tags\":[" \o (IF Has(args, "tags") THEN JsonStrings(args.tags) ELSE "") \o "]"
  \o ",\"createdAfter\":" \o JsonString(StrOrEmpty(args, "createdAfter"))
  \o ",\"updatedAfter\":" \o JsonString(StrOrEmpty(args, "updatedAfter"))
  \o ",\"maxResults\":"
  \o (IF Has(args, "maxResults") THEN IntToString(args.maxResults) ELSE "null")
  \o ",\"offset\":"
  \o (IF Has(args, "offset") THEN IntToString(args.offset) ELSE "null")
  \o "}"

\* JSON.stringify of the normalised argument object
SearchString(args) ==
  "{\"query\":" \o JsonString(StrOrEmpty(args, "query"))
  \o ",\"notebookName\":" \o JsonString(StrOrEmpty(args, "notebookName"))
  \o ",\"notebookGuid\":" \o JsonString(StrOrEmpty(args, "notebookGuid"))
  \o ",\"tags\":[" \o (IF Has(args, "tags") THEN JsonStrings(args.tags) ELSE "") \o "]"
  \o ",\"createdAfter\":" \o JsonString(StrOrEmpty(args, "createdAfter"))
  \o ",\"updatedAfter\":" \o JsonString(StrOrEmpty(args, "updatedAfter"))
  \o ",\"maxResults\":" \o IntToString(NumOr(args, "maxResults", 20))
  \o ",\"offset\":" \o IntToString(NumOr(args, "offset", 0))
  \o "}"

\* A 32-bit word is kept as <<high half, low half>>, both in 0..65535.
Half == 65536

\* hash = ((hash << 5) - hash) + char; hash = hash & hash
HashStep(hash, char) ==
  LET lo == 31 * hash[2] + char
      hi == 31 * hash[1] + (lo \div Half)
  IN <<hi % Half, lo % Half>>

RECURSIVE HashRange(_, _, _, _)
\* for (let i = 0; i < str.length; i++): the turns of the loop for the
\* characters first..final of str, left to right. The range is walked by
\* halves, and the word of the left half is computed (by the test on it)
\* before the right half is entered, so that the evaluation stays shallow on
\* the long JSON strings.
HashRange(str, first, final, hash) ==
  IF first > final THEN hash
  ELSE IF first = final THEN HashStep(hash, charCodeAt(SubSeq(str, first, first)))
  ELSE LET mid == (first + final) \div 2
           left == HashRange(str, first, mid, hash)
       IN IF left[1] >= 0 THEN HashRange(str, mid + 1, final, left)
          ELSE left

\* let hash = 0; and the loop over searchString
HashString(str, hash) == HashRange(str, 1, Len(str), hash)

\* Math.abs(hash).toString(36) of the word read as a signed 32-bit integer
AbsToString36(hash) ==
  IF hash[1] < Half \div 2 THEN NatToString(hash[1] * Half + hash[2], 36)
  ELSE IF hash = <<Half \div 2, 0>> THEN "zik0zk"
  ELSE NatToString((Half - 1 - hash[1]) * Half + (Half - hash[2]), 36)

\* the body of generateSearchId(args)
SearchIdOf(args) == "search_" \o AbsToString36(HashString(SearchString(args), <<0, 0>>))

\* The object generateSearchId stringifies: every field with its default.
SearchFilter(args) ==
  [query |-> StrOrEmpty(args, "query"),
   notebookName |-> StrOrEmpty(args, "notebookName"),
   notebookGuid |-> StrOrEmpty(args, "notebookGuid"),
   tags |-> IF Has(args, "tags") THEN args.tags ELSE <<>>,
   createdAfter |-> StrOrEmpty(args, "createdAfter"),
   updatedAfter |-> StrOrEmpty(args, "updatedAfter"),
   maxResults |-> NumOr(args, "maxResults", 20),
   offset |-> NumOr(args, "offset", 0)]

\* The search criteria the tool calls of the model carry.
BoatArgs == [query |-> "boat"]

\* Argument objects a caller may send: the same criteria written in several
\* ways, criteria that differ in one field, and short query texts.
SearchArgs ==
  {BoatArgs,
   [query |-> "boat", offset |-> 0],
   [query |-> "boat", maxResults |-> 20],
   [query |-> "boat", maxResults |-> 20, offset |-> 0, tags |-> <<>>],
   [query |-> "boat", maxResults |-> 0],
   [query |-> "boat", notebookName |-> "", createdAfter |-> ""],
   [query |-> "boat", offset |-> 1],
   [query |-> "boat", offset |-> 20],
   [query |-> "boat", offset |-> 40],
   [query |-> "boat", maxResults |-> 10],
   [query |-> "boat", maxResults |-> 100],
   [query |-> "boat", tags |-> <<"repair", "urgent">>],
   [query |-> "boat", tags |-> <<"urgent", "repair">>],
   [query |-> "boat", notebookName |-> "Work"],
   [query |-> "boat", notebookGuid |-> "g1"],
   [query |-> "boat", createdAfter |-> "2024-01-15"],
   [query |-> "boat", updatedAfter |-> "2024-01-15"],
   [notebookName |-> "boat"],
   [tags |-> <<"boat">>],
   [query |-> "Aa"],
   [query |-> "BB"],
   [query |-> "Ab"]}

\* generateSearchId(args); the identifiers of the criteria in SearchArgs are
\* computed once and looked up afterwards
SearchIds == [a \in SearchArgs |-> SearchIdOf(a)]
generateSearchId(args) ==
  IF args \in SearchArgs THEN SearchIds[args] ELSE SearchIdOf(args)

\* ------------------------------------------------------------- the cache
\* 60 * 60 * 1000 ms and 30 * 60 * 1000 ms, in ticks of thirty minutes
CacheTtl == 2
SweepInterval == 1

\* cacheSearchResults whose entries expire the moment they are written
cacheSearchResultsNoTtl(cache, searchId, results, originalArgs, t) ==
  [id \in DOMAIN cache \cup {searchId} |->
     IF id = searchId
     THEN [results |-> results, originalArgs |-> originalArgs,
           timestamp |-> t, expires |-> t]
     ELSE cache[id]]

\* cacheSearchResults(searchId, results, originalArgs)
cacheSearchResults(cache, searchId, results, originalArgs, t) ==
  [id \in DOMAIN cache \cup {searchId} |->
     IF id = searchId
     THEN [results |-> results, originalArgs |-> originalArgs,
           timestamp |-> t, expires |-> t + CacheTtl]
     ELSE cache[id]]

\* getCachedResults that answers from an expired entry and keeps it
getCachedResultsStale(cache, searchId, t) ==
  IF searchId \notin DOMAIN cache THEN [cached |-> Null, cache |-> cache]
  ELSE [cached |-> cache[searchId], cache |-> cache]

\* getCachedResults(searchId): the entry or null, and the cache it leaves
getCachedResults(cache, searchId, t) ==
  IF searchId \notin DOMAIN cache THEN [cached |-> Null, cache |-> cache]
  ELSE IF t > cache[searchId].expires
  THEN [cached |-> Null, cache |-> DeleteKey(cache, searchId)]
  ELSE [cached |-> cache[searchId], cache |-> cache]

\* cleanupCache() that deletes nothing
cleanupCacheNothing(cache, t) == cache

\* cleanupCache() that also deletes the entries expiring at the sweep's time
cleanupCacheInclusive(cache, t) ==
  [id \in {i \in DOMAIN cache : ~(t >= cache[i].expires)} |-> cache[id]]

\* cleanupCache()
cleanupCache(cache, t) ==
  [id \in {i \in DOMAIN cache : ~(t > cache[i].expires)} |-> cache[id]]

\* { ...data, searchId, cached, timestamp }
SearchDetails(data, searchId, cached, timestamp) ==
  [results |-> data.results, totalFound |-> data.totalFound, query |-> data.query,
   offset |-> data.offset, maxResults |-> data.maxResults,
   searchId |-> searchId, cached |-> cached, timestamp |-> timestamp]

\* What getSearch hands back: a tool's answer and the cache it leaves.
SearchReturn(cache, request, response) ==
  [threw |-> FALSE, cache |-> cache, request |-> request, response |-> response,
   message |-> Undefined]

\* getSearch that caches whatever createSearch returned, error payloads too
SearchMissCacheAll(args, searchId, cache, results, t) ==
  IF results.threw
  THEN SearchReturn(cache, results.request,
                    createMCPResponse("error", Null,
                      "Failed to get search results: " \o results.message))
  ELSE SearchReturn(cacheSearchResults(cache, searchId, results.response, args, t),
                    results.request,
                    IF results.response.status = "error" THEN results.response
                    ELSE createMCPResponse("success",
                           SearchDetails(results.response.data, searchId, FALSE, t), Null))

\* getSearch when the cache holds nothing for searchId: results is what
\* createSearch did (a throw is caught by getSearch's own catch block)
SearchMiss(args, searchId, cache, results, t) ==
  IF results.threw
  THEN SearchReturn(cache, results.request,
                    createMCPResponse("error", Null,
                      "Failed to get search results: " \o results.message))
  ELSE IF results.response.status = "error"
  THEN SearchReturn(cache, results.request, results.response)
  ELSE SearchReturn(cacheSearchResults(cache, searchId, results.response, args, t),
                    results.request,
                    createMCPResponse("success",
                      SearchDetails(results.response.data, searchId, FALSE, t), Null))

\* getSearch with the identifier generated from the criteria: got is what
\* getCachedResults(searchId) did
SearchByCriteria(args, tokenData, searchId, got, up, t) ==
  IF got.cached # Null
  THEN SearchReturn(got.cache, NoRequest,
                    createMCPResponse("success",
                      SearchDetails(got.cached.results.data, searchId, TRUE,
                                    got.cached.timestamp), Null))
  ELSE SearchMiss(args, searchId, got.cache, createSearch(args, tokenData, up), t)

\* getSearch with args.searchId: got is what getCachedResults(searchId) did
SearchById(searchId, got) ==
  IF got.cached # Null
  THEN SearchReturn(got.cache, NoRequest,
                    createMCPResponse("success",
                      SearchDetails(got.cached.results.data, searchId, TRUE,
                                    got.cached.timestamp), Null))
  ELSE SearchReturn(got.cache, NoRequest,
                    createMCPResponse("error", Null,
                      "Search ID " \o searchId
                      \o " not found or expired. Please create a new search."))

\* the lookup with the generated identifier
SearchGenerated(args, tokenData, cache, searchId, up, t) ==
  SearchByCriteria(args, tokenData, searchId,
                   getCachedResults(cache, searchId, t), up, t)

\* getSearch(args, tokenData)
getSearch(args, tokenData, cache, up, t) ==
  IF TruthyStr(args, "searchId")
  THEN SearchById(args.searchId, getCachedResults(cache, args.searchId, t))
  ELSE IF ~TruthyStr(args, "query") /\ ~TruthyStr(args, "notebookName") /\ ~Has(args, "tags")
  THEN SearchReturn(cache, NoRequest,
                    createMCPResponse("error", Null,
                      "Either searchId or search criteria (query, notebookName, or tags) must be provided"))
  ELSE SearchGenerated(args, tokenData, cache, generateSearchId(args), up, t)

\* ------------------------------------------------------------- POST /mcp
ToolNames == {"createSearch", "getSearch", "getNote", "getNoteContent"}

\* a tool that leaves the cache alone
KeepCache(r, cache) ==
  [threw |-> r.threw, cache |-> cache, request |-> r.request,
   response |-> r.response, message |-> r.message]

\* the switch of handleJsonRpcRequest and of handleLegacyRequest
CallTool(name, args, tokenData, cache, up, t) ==
  IF name = "createSearch" THEN KeepCache(createSearch(args, tokenData, up), cache)
  ELSE IF name = "getSearch" THEN getSearch(args, tokenData, cache, up, t)
  ELSE IF name = "getNote" THEN KeepCache(getNote(args, tokenData, up), cache)
  ELSE KeepCache(getNoteContent(args, tokenData, up), cache)

\* What the client reads: the HTTP status, the JSON-RPC error code (0 when
\* the reply carries a result), the error text and the tool's payload.
McpReply(httpStatus, code, error, result) ==
  [httpStatus |-> httpStatus, code |-> code, error |-> error, result |-> result]

\* What a handler did: whether a tool function was invoked, the cache it
\* left, the NoteStore request and the reply.
Handled(invoked, cache, request, reply) ==
  [invoked |-> invoked, cache |-> cache, request |-> request, reply |-> reply]

\* handleLegacyRequest after the tool returned or threw (the catch block)
LegacyResult(r) ==
  IF r.threw
  THEN Handled(TRUE, r.cache, r.request, McpReply(500, 0, "Command execution failed", Null))
  ELSE Handled(TRUE, r.cache, r.request, McpReply(200, 0, Undefined, r.response))

\* handleLegacyRequest(request, res) for { command: name, args }
handleLegacyRequest(name, args, tokenData, cache, up, t) ==
  IF tokenData = Null
  THEN Handled(FALSE, cache, NoRequest, McpReply(401, 0, "Not authenticated", Null))
  ELSE IF name \notin ToolNames
  THEN Handled(FALSE, cache, NoRequest, McpReply(400, 0, "Unknown command", Null))
  ELSE LegacyResult(CallTool(name, args, tokenData, cache, up, t))

\* handleJsonRpcRequest after the tool returned or threw (the catch block)
JsonRpcResult(r) ==
  IF r.threw
  THEN Handled(TRUE, r.cache, r.request, McpReply(200, -32603, "Internal error", Null))
  ELSE Handled(TRUE, r.cache, r.request, McpReply(200, 0, Undefined, r.response))

\* handleJsonRpcRequest(request, res) for method callTool
handleJsonRpcRequest(name, args, tokenData, cache, up, t) ==
  IF tokenData = Null
  THEN Handled(FALSE, cache, NoRequest,
               McpReply(200, -32001,
                        "Evernote authentication required. Please run the server standalone first to complete OAuth flow.",
                        Null))
  ELSE IF name \notin ToolNames
  THEN Handled(FALSE, cache, NoRequest,
               McpReply(200, -32601, "Unknown tool: " \o name, Null))
  ELSE JsonRpcResult(CallTool(name, args, tokenData, cache, up, t))

\* The requests and NoteStore answers the model draws from.
EmptyArgs == [k \in {} |-> ""]
BoatId == generateSearchId(BoatArgs)

\* name and arguments of the tool calls: each tool with and without what it
\* needs, and a tool the server does not have
McpRequests ==
  {[name |-> "createSearch", args |-> EmptyArgs],
   [name |-> "createSearch", args |-> BoatArgs],
   [name |-> "getSearch", args |-> EmptyArgs],
   [name |-> "getSearch", args |-> BoatArgs],
   [name |-> "getSearch", args |-> [searchId |-> BoatId]],
   [name |-> "getSearch", args |-> [searchId |-> "search_0"]],
   [name |-> "getNote", args |-> EmptyArgs],
   [name |-> "getNote", args |-> [noteGuid |-> "n1"]],
   [name |-> "getNoteContent", args |-> [noteGuid |-> "n1"]],
   [name |-> "getNoteContent", args |-> [noteGuid |-> "n1", format |-> "pdf"]],
   [name |-> "deleteNote", args |-> EmptyArgs]}

SearchUpstreams ==
  {UpstreamOk([notes |-> <<[guid |-> "n1", title |-> "Boat repair"]>>, totalNotes |-> 1]),
   UpstreamError("EDAMUserException: AUTH_EXPIRED")}

NoteUpstreams ==
  {UpstreamOk([guid |-> "n1", title |-> "",
               content |-> TodoDocument(Chars("<en-todo/>"), Chars("x"))]),
   UpstreamError(ThriftFailure(NoteNotFound))}

Upstreams(name) ==
  IF name \in {"getNote", "getNoteContent"} THEN NoteUpstreams ELSE SearchUpstreams

\* a search tool sent its request and answered with results
SearchRan(name, h) ==
  /\ h.invoked
  /\ name \in {"createSearch", "getSearch"}
  /\ h.request.sent
  /\ h.reply.result # Null
  /\ h.reply.result.status = "success"

\* the state a request leaves, h being what its handler did (found is the
\* cache as the handler found it)
McpDone(fmt, name, args, tokenData, h) ==
  /\ searchCache' = h.cache
  /\ executed' = IF SearchRan(name, h)
                 THEN [id \in DOMAIN executed \cup {generateSearchId(args)} |->
                         IF id = generateSearchId(args) THEN now ELSE executed[id]]
                 ELSE executed
  /\ last' = [op |-> "mcp", fmt |-> fmt, name |-> name, args |-> args,
              tokenData |-> tokenData, invoked |-> h.invoked,
              request |-> h.request, reply |-> h.reply, found |-> searchCache]

\* app.post('/mcp'): one request in format fmt, served while listening
McpCall(fmt, name, args, up) ==
  /\ pc = "listening"
  /\ IF fmt = "jsonrpc"
     THEN McpDone(fmt, name, args, getTokenFromEnv(env),
                  handleJsonRpcRequest(name, args, getTokenFromEnv(env),
                                       searchCache, up, now))
     ELSE McpDone(fmt, name, args, getTokenFromEnv(env),
                  handleLegacyRequest(name, args, getTokenFromEnv(env),
                                      searchCache, up, now))
  /\ UNCHANGED <<now, config, env, envFile, pc, authResult, startupError,
                 browser, oauthState, inflight>>
  /\ UNCHANGED keychainVars

\* setInterval(cleanupCache, 30 * 60 * 1000): the timer's callback
CleanupCache ==
  /\ searchCache' = cleanupCache(searchCache, now)
  /\ last' = [op |-> "cleanupCache",
              removed |-> DOMAIN searchCache \ DOMAIN cleanupCache(searchCache, now)]
  /\ UNCHANGED <<now, config, env, envFile, pc, authResult, startupError,
                 browser, oauthState, inflight, executed>>
  /\ UNCHANGED keychainVars

\* The process ends and a new one is started: the module state is gone and
\* process.env is read from the .env file again.
Restart ==
  /\ env' = DotenvConfig(envFile)
  /\ pc' = "boot"
  /\ authResult' = Null
  /\ startupError' = Undefined
  /\ browser' = Undefined
  /\ oauthState' = EmptyMap
  /\ inflight' = NoInflight
  /\ searchCache' = EmptyMap
  /\ executed' = EmptyMap
  /\ last' = [op |-> "restart"]
  /\ UNCHANGED <<now, config, envFile>>
  /\ UNCHANGED keychainVars

\* ------------------------------------------ the Keychain edition of auth.js
\* The placeholder stored for an empty token secret.
EmptyTokenSecret == "EMPTY_TOKEN_SECRET"

EdamKeys == <<"shard", "userId", "expires", "noteStoreUrl", "webApiUrlPrefix">>

\* edamData of storeTokenInKeychain
EdamData(tokenData) ==
  [shard |-> tokenData.edamShard, userId |-> tokenData.edamUserId,
   expires |-> tokenData.edamExpires, noteStoreUrl |-> tokenData.edamNoteStoreUrl,
   webApiUrlPrefix |-> tokenData.edamWebApiUrlPrefix]

\* JSON.stringify(edamData): the members in order, an undefined one left out
JsonStringify(edamData) ==
  SelectSeq([i \in 1..Len(EdamKeys) |-> [key |-> EdamKeys[i], value |-> edamData[EdamKeys[i]]]],
            LAMBDA member : member.value # Undefined)

\* JSON.parse(edamDataJson).<key>
JsonMember(edamDataJson, key) ==
  IF \E i \in DOMAIN edamDataJson : edamDataJson[i].key = key
  THEN edamDataJson[CHOOSE i \in DOMAIN edamDataJson : edamDataJson[i].key = key].value
  ELSE Undefined

\* The three keytar.setPassword calls of storeTokenInKeychain, in order.
KeychainWrites(tokenData) ==
  <<[account |-> "access_token", password |-> tokenData.accessToken],
    [account |-> "token_secret",
     password |-> IF Truthy(tokenData.tokenSecret) THEN tokenData.tokenSecret
                  ELSE EmptyTokenSecret],
    [account |-> "edam_data", password |-> JsonStringify(EdamData(tokenData))]>>

\* The three keytar.getPassword calls of getTokenFromKeychain, in order.
KeychainReads == <<"access_token", "token_secret", "edam_data">>

\* What getTokenFromKeychain returns once it has read the three entries.
getTokenFromKeychain(read) ==
  IF read.access_token = Null \/ read.access_token.password = "" THEN Null
  ELSE LET accessToken == read.access_token.password
           tokenSecret == IF read.token_secret = Null THEN ""
                          ELSE IF read.token_secret.password = EmptyTokenSecret THEN ""
                          ELSE read.token_secret.password
       IN IF read.edam_data = Null
          THEN [accessToken |-> accessToken, tokenSecret |-> tokenSecret]
          ELSE [accessToken |-> accessToken, tokenSecret |-> tokenSecret,
                edamShard |-> JsonMember(read.edam_data.password, "shard"),
                edamUserId |-> JsonMember(read.edam_data.password, "userId"),
                edamExpires |-> JsonMember(read.edam_data.password, "expires"),
                edamNoteStoreUrl |-> JsonMember(read.edam_data.password, "noteStoreUrl"),
                edamWebApiUrlPrefix |-> JsonMember(read.edam_data.password, "webApiUrlPrefix")]

\* The Keychain after storeTokenInKeychain(tokenData) has run to its end.
StoredInKeychain(tokenData) ==
  [a \in KeychainAccounts |->
     [password |-> (CHOOSE w \in {KeychainWrites(tokenData)[i] : i \in 1..3} :
                      w.account = a).password]]

\* A credential of a later authorization.
NewToken ==
  [accessToken |-> "AT2", tokenSecret |-> "ats", edamShard |-> "s2",
   edamUserId |-> "43", edamExpires |-> Undefined,
   edamNoteStoreUrl |-> "https://www.evernote.com/shard/s2/notestore",
   edamWebApiUrlPrefix |-> "https://www.evernote.com/shard/s2/"]

StoreTokens == {StoredToken("1"), NewToken}

\* handleCallback calls storeTokenInKeychain(tokenData)
StoreTokenInKeychain(tokenData) ==
  /\ storing = Null
  /\ storing' = [tokenData |-> tokenData, step |-> 1]
  /\ stored' = stored \cup {tokenData}
  /\ last' = [op |-> "storeTokenInKeychain"]
  /\ UNCHANGED <<keychain, loading>>
  /\ UNCHANGED serverVars

\* One awaited keytar.setPassword of storeTokenInKeychain resolves or rejects.
SetPassword(ok) ==
  /\ storing # Null
  /\ LET write == KeychainWrites(storing.tokenData)[storing.step] IN
     /\ keychain' = IF ok THEN [keychain EXCEPT ![write.account] = [password |-> write.password]]
                    ELSE keychain
     /\ storing' = IF ok /\ storing.step < 3
                   THEN [storing EXCEPT !.step = storing.step + 1]
                   ELSE Null
     /\ last' = [op |-> "setPassword", account |-> write.account, threw |-> ~ok]
  /\ UNCHANGED <<loading, stored>>
  /\ UNCHANGED serverVars

\* A request handler or authenticate() calls getTokenFromKeychain()
GetTokenFromKeychain ==
  /\ loading = Null
  /\ loading' = [step |-> 1, read |-> NoPasswords]
  /\ last' = [op |-> "getTokenFromKeychain"]
  /\ UNCHANGED <<keychain, storing, stored>>
  /\ UNCHANGED serverVars

\* a load function whose catch block throws the backend's error again
LoadRethrown(ok, result) ==
  [failed |-> ~ok, threw |-> ~ok, result |-> IF ok THEN result ELSE Null]

\* try { ... return result } catch (error) { console.error(...); return null }
\* of getTokenFromKeychain and getTokenFromEnv: ok is whether the backend
\* let itself be read
LoadCaught(ok, result) ==
  [failed |-> ~ok, threw |-> FALSE, result |-> IF ok THEN result ELSE Null]

\* What a load function did and returned.
LoadStep(backend, r) ==
  [op |-> "load", backend |-> backend, failed |-> r.failed, threw |-> r.threw,
   result |-> r.result]

\* One awaited keytar.getPassword of getTokenFromKeychain resolves or rejects;
\* after the third the function returns.
GetPassword(ok) ==
  /\ loading # Null
  /\ LET account == KeychainReads[loading.step]
         read == [loading.read EXCEPT ![account] = keychain[account]]
     IN
     /\ loading' = IF ok /\ loading.step < 3
                   THEN [step |-> loading.step + 1, read |-> read]
                   ELSE Null
     /\ last' = IF ok /\ loading.step < 3
                THEN [op |-> "getPassword", account |-> account]
                ELSE LoadStep("keychain", LoadCaught(ok, getTokenFromKeychain(read)))
  /\ UNCHANGED <<keychain, storing, stored>>
  /\ UNCHANGED serverVars

\* ------------------------------------------------- the .env edition, alone
\* handleCallback calls storeTokenInEnv(tokenData): no await before the write
StoreTokenInEnv(tokenData, fileOk) ==
  /\ storeTokenInEnv(tokenData, fileOk)
  /\ stored' = stored \cup {tokenData}
  /\ last' = [op |-> "storeTokenInEnv", written |-> fileOk]
  /\ UNCHANGED <<keychain, storing, loading>>
  /\ UNCHANGED <<now, config, pc, authResult, startupError, browser, oauthState,
                 inflight, searchCache, executed>>

\* A request handler calls getTokenFromEnv(); a new process reads .env
\* first.  ok is whether process.env let itself be read.
GetTokenFromEnv(newProcess, ok) ==
  /\ last' = LoadStep("env",
                LoadCaught(ok, IF newProcess THEN getTokenFromEnv(DotenvConfig(envFile))
                               ELSE getTokenFromEnv(env)))
  /\ UNCHANGED keychainVars
  /\ UNCHANGED serverVars

\* ------------------------------------------------------ generateSignature
\* An object literal is the sequence of its [key, value] members in
\* insertion order; its keys are distinct.
ObjectKeys(params) == [i \in 1..Len(params) |-> params[i].key]
Member(params, key) == (CHOOSE i \in 1..Len(params) : params[i].key = key)

RECURSIVE StringLess(_, _)
\* a < b for strings: the order Array.prototype.sort() gives (code units)
StringLess(a, b) ==
  IF b = "" THEN FALSE
  ELSE IF a = "" THEN TRUE
  ELSE IF SubSeq(a, 1, 1) # SubSeq(b, 1, 1)
  THEN charCodeAt(SubSeq(a, 1, 1)) < charCodeAt(SubSeq(b, 1, 1))
  ELSE StringLess(SubSeq(a, 2, Len(a)), SubSeq(b, 2, Len(b)))

RECURSIVE Insert(_, _)
Insert(key, sorted) ==
  IF sorted = <<>> THEN <<key>>
  ELSE IF StringLess(sorted[1], key) THEN <<sorted[1]>> \o Insert(key, Tail(sorted))
  ELSE <<key>> \o sorted

\* keys left as Object.keys gave them
Unsorted(keys) == keys

RECURSIVE Sort(_)
\* keys.sort()
Sort(keys) == IF keys = <<>> THEN <<>> ELSE Insert(keys[1], Sort(Tail(keys)))

\* A-Z a-z 0-9 - _ . ! ~ * ' ( ) are left as they are by encodeURIComponent
Unreserved == "ABCDEFGHIJKLMNOPQRSTUVWXYZabcdefghijklmnopqrstuvwxyz0123456789-_.!~*'()"
HexDigits == "0123456789ABCDEF"

\* %XX for one character
PercentEncode(c) ==
  "%" \o SubSeq(HexDigits, (charCodeAt(c) \div 16) + 1, (charCodeAt(c) \div 16) + 1)
      \o SubSeq(HexDigits, (charCodeAt(c) % 16) + 1, (charCodeAt(c) % 16) + 1)

RECURSIVE encodeURIComponent(_)
encodeURIComponent(str) ==
  IF str = "" THEN ""
  ELSE (IF \E i \in 1..Len(Unreserved) : SubSeq(Unreserved, i, i) = SubSeq(str, 1, 1)
        THEN SubSeq(str, 1, 1) ELSE PercentEncode(SubSeq(str, 1, 1)))
       \o encodeURIComponent(SubSeq(str, 2, Len(str)))

\* method.toUpperCase() for the method names in use
toUpperCase(method) ==
  CASE method = "get" -> "GET"
    [] method = "post" -> "POST"
    [] OTHER -> method

\* key=value of each key, in the order of keys
EncodedPairs(params, keys) ==
  [i \in 1..Len(keys) |->
     encodeURIComponent(keys[i]) \o "=" \o encodeURIComponent(params[Member(params, keys[i])].value)]

\* crypto.createHmac('sha1', key).update(data).digest('base64'): the digest
\* is kept as the pair it is computed from
HmacSha1Base64(key, data) == [hmac |-> "sha1", key |-> key, data |-> data]

\* the signature of a base string under consumerSecret and tokenSecret
SignBaseString(method, baseUrl, sortedParams, tokenSecret, consumerSecret) ==
  HmacSha1Base64(encodeURIComponent(consumerSecret) \o "&" \o encodeURIComponent(tokenSecret),
                 Join(<<toUpperCase(method), encodeURIComponent(baseUrl),
                        encodeURIComponent(sortedParams)>>, "&"))

\* generateSignature(method, baseUrl, params, tokenSecret)
generateSignature(method, baseUrl, params, tokenSecret, consumerSecret) ==
  SignBaseString(method, baseUrl,
                 Join(EncodedPairs(params, Sort(ObjectKeys(params))), "&"),
                 tokenSecret, consumerSecret)

\* ---------------------------------------------------- generateOAuthParams
CallbackUrl == "https://localhost:3443/oauth/callback"

\* delete params[key]
DeleteMember(params, key) == SelectSeq(params, LAMBDA member : member.key # key)

\* the object literal generateOAuthParams starts from
InitialOAuthParams(consumerKey, nonce, timestamp) ==
  <<[key |-> "oauth_consumer_key", value |-> consumerKey],
    [key |-> "oauth_nonce", value |-> nonce],
    [key |-> "oauth_signature_method", value |-> "HMAC-SHA1"],
    [key |-> "oauth_timestamp", value |-> timestamp],
    [key |-> "oauth_version", value |-> "1.0"],
    [key |-> "oauth_callback", value |-> CallbackUrl]>>

\* generateOAuthParams that leaves oauth_callback in place beside the token
generateOAuthParamsKeepCallback(consumerKey, nonce, timestamp, token, verifier) ==
  InitialOAuthParams(consumerKey, nonce, timestamp)
  \o (IF Truthy(token) THEN <<[key |-> "oauth_token", value |-> token]>> ELSE <<>>)
  \o (IF Truthy(verifier) THEN <<[key |-> "oauth_verifier", value |-> verifier]>> ELSE <<>>)

\* generateOAuthParams(token, verifier), with the consumer key of
\* EVERNOTE_CONFIG and the nonce and the timestamp it draws
generateOAuthParams(consumerKey, nonce, timestamp, token, verifier) ==
  (IF Truthy(token)
   THEN DeleteMember(InitialOAuthParams(consumerKey, nonce, timestamp), "oauth_callback")
        \o <<[key |-> "oauth_token", value |-> token]>>
   ELSE InitialOAuthParams(consumerKey, nonce, timestamp))
  \o (IF Truthy(verifier) THEN <<[key |-> "oauth_verifier", value |-> verifier]>> ELSE <<>>)

\* ------------------------------------------------- the functions, alone
\* Each run below applies one function once, to inputs drawn from a set.
NotCalled == last = NoStep

\* getSearch generates the identifiers of two argument objects.
GenerateSearchId(args, other) ==
  /\ NotCalled
  /\ last' = [op |-> "generateSearchId", args |-> args, other |-> other,
              searchId |-> generateSearchId(args),
              otherId |-> generateSearchId(other)]
  /\ UNCHANGED keychainVars
  /\ UNCHANGED serverVars

\* Argument objects for buildSearchQuery: those of SearchArgs and others
\* with several filters at once, dates with a time of day, a date that is
\* none, and no filter at all.
QueryArgs ==
  SearchArgs
  \cup {[query |-> "boat", notebookName |-> "Work", tags |-> <<"repair", "urgent">>,
         createdAfter |-> "2024-01-15", updatedAfter |-> "2024-02-01"],
        [query |-> "boat", notebookName |-> "Work", tags |-> <<"repair", "urgent">>,
         createdAfter |-> "2024-01-15", updatedAfter |-> "2024-02-01",
         maxResults |-> 50, offset |-> 20],
        [notebookName |-> "Work", tags |-> <<"repair">>, maxResults |-> 5],
        [tags |-> <<"urgent", "repair", "urgent">>, updatedAfter |-> "2024-02-01T23:59:59Z"],
        [query |-> "boat repair", createdAfter |-> "2024-01-15T10:30:00Z", offset |-> 40],
        [query |-> "boat", createdAfter |-> "yesterday"],
        [query |-> "boat", tags |-> <<"">>],
        [tags |-> <<>>],
        [maxResults |-> 10, offset |-> 5],
        [k \in {} |-> ""]}

\* createSearch builds the query string of an argument object.
BuildSearchQuery(args) ==
  /\ NotCalled
  /\ last' = [op |-> "buildSearchQuery", args |-> args,
              threw |-> buildSearchQuery(args).threw,
              query |-> buildSearchQuery(args).query]
  /\ UNCHANGED keychainVars
  /\ UNCHANGED serverVars

\* Argument objects for createSearch: those of QueryArgs, a notebook GUID
\* alone, and page sizes and offsets inside and outside the schema's ranges.
CreateSearchArgs ==
  QueryArgs
  \cup {[notebookGuid |-> "g1"]}
  \cup {[query |-> "boat", maxResults |-> m, offset |-> o] :
          m \in {-5, 0, 1, 100, 101, 500}, o \in {-3, 0, 40}}

\* The credential the tool functions are handed here.
ToolToken == getTokenFromEnv(TokenEnv(StoredToken(Undefined)))

\* The dispatch layer calls createSearch(args, tokenData); up is what the
\* NoteStore does with the request, if one is sent.
CreateSearch(args, up) ==
  /\ NotCalled
  /\ last' = [op |-> "createSearch", args |-> args,
              threw |-> createSearch(args, ToolToken, up).threw,
              request |-> createSearch(args, ToolToken, up).request,
              response |-> createSearch(args, ToolToken, up).response]
  /\ UNCHANGED keychainVars
  /\ UNCHANGED serverVars

\* the failures a tool can meet: a search has no note to miss
ToolErrors(name) ==
  IF name = "createSearch" THEN {e \in ThriftErrors : e.cause # "missing note"}
  ELSE ThriftErrors

\* the response of tool name when its NoteStore call fails with error
FailedToolResponse(name, error) ==
  IF name = "createSearch"
  THEN createSearch(BoatArgs, ToolToken, UpstreamError(ThriftFailure(error))).response
  ELSE IF name = "getNote"
  THEN getNote([noteGuid |-> "n1"], ToolToken, UpstreamError(ThriftFailure(error))).response
  ELSE getNoteContent([noteGuid |-> "n1"], ToolToken,
                      UpstreamError(ThriftFailure(error))).response

\* A tool is called twice, and the NoteStore fails each time.
ToolFailure(name, error, other) ==
  /\ NotCalled
  /\ last' = [op |-> "toolFailure", name |-> name,
              cause |-> error.cause, error |-> error,
              response |-> FailedToolResponse(name, error),
              otherCause |-> other.cause,
              otherResponse |-> FailedToolResponse(name, other)]
  /\ UNCHANGED keychainVars
  /\ UNCHANGED serverVars

\* A search's first page, as createSearch answers it.
BoatResults == createSearch(BoatArgs, ToolToken, UpstreamOk([notes |-> <<>>, totalNotes |-> 0])).response

\* The caches the timer may find: nothing, or the searches for "boat" and
\* for "Ab", each written by cacheSearchResults at some time.
WrittenCaches ==
  {EmptyMap}
  \cup {cacheSearchResults(EmptyMap, generateSearchId(BoatArgs), BoatResults, BoatArgs, w) :
          w \in 0..MaxTime}
  \cup {cacheSearchResults(
          cacheSearchResults(EmptyMap, generateSearchId(BoatArgs), BoatResults, BoatArgs, w),
          generateSearchId([query |-> "Ab"]), BoatResults, [query |-> "Ab"], v) :
          w \in 0..MaxTime, v \in 0..MaxTime}

\* the latest write of a cache
LastWrite(cache) ==
  IF cache = EmptyMap THEN 0
  ELSE CHOOSE w \in {cache[id].timestamp : id \in DOMAIN cache} :
         \A id \in DOMAIN cache : cache[id].timestamp <= w

\* The timer fires at time t and cleanupCache() runs on the cache.
Sweep(cache, t) ==
  /\ NotCalled
  /\ t >= LastWrite(cache)
  /\ last' = [op |-> "sweep", cache |-> cache, t |-> t, swept |-> cleanupCache(cache, t)]
  /\ UNCHANGED keychainVars
  /\ UNCHANGED serverVars

\* What the await of createSearch gives getSearch: createSearch's return
\* value for what the NoteStore did, or an exception out of createSearch.
SearchOutcome(args, up, thrown) ==
  IF thrown THEN ToolThrow("socket hang up") ELSE createSearch(args, ToolToken, up)

\* getSearch(args, tokenData) with search criteria and no searchId, at time
\* t on the cache; results is what createSearch does if it is called.
GetSearch(args, cache, results, t) ==
  /\ NotCalled
  /\ t >= LastWrite(cache)
  /\ LET searchId == generateSearchId(args)
         got == getCachedResults(cache, searchId, t)
     IN last' = [op |-> "getSearch", args |-> args, cache |-> cache, t |-> t,
                 searchId |-> searchId, results |-> results,
                 return |-> IF got.cached # Null
                            THEN SearchById(searchId, got)
                            ELSE SearchMiss(args, searchId, got.cache, results, t)]
  /\ UNCHANGED keychainVars
  /\ UNCHANGED serverVars

\* What the NoteStore may answer the second of two searches: as the first
\* time, or with the note gone.
LaterUpstreams ==
  SearchUpstreams \cup {UpstreamOk([notes |-> <<>>, totalNotes |-> 0])}

\* The cache between two calls: the timer may have run cleanupCache at time s.
Between(cache, swept, s) == IF swept THEN cleanupCache(cache, s) ELSE cache

\* Two successive getSearch(args, tokenData) calls of one process, the first
\* at time t on an empty cache, the second at time u on the cache the first
\* (and the timer) left.
GetSearchTwice(args, up, t, swept, s, later, u) ==
  /\ NotCalled
  /\ t <= s /\ s <= u
  /\ LET first == getSearch(args, ToolToken, EmptyMap, up, t)
         second == getSearch(args, ToolToken, Between(first.cache, swept, s), later, u)
     IN last' = [op |-> "getSearch twice", args |-> args, t |-> t, u |-> u,
                 swept |-> swept, later |-> later,
                 first |-> first, second |-> second]
  /\ UNCHANGED keychainVars
  /\ UNCHANGED serverVars

\* Arguments of getNoteContent: every format, formats it does not have, an
\* empty one, none, and a call without the note.
ContentArgs ==
  {[noteGuid |-> "n1"], [format |-> "enml"]}
  \cup {[noteGuid |-> "n1", format |-> f] :
          f \in {"text", "html", "enml", "pdf", "ENML", ""}}

\* What the NoteStore does with getNote: the note with one of the bodies, or
\* an error.
ContentUpstreams ==
  {UpstreamOk([guid |-> "n1", title |-> "Groceries", content |-> c]) : c \in NoteContents}
  \cup {UpstreamError(ThriftFailure(NoteNotFound))}

\* The dispatch layer calls getNoteContent(args, tokenData).
GetNoteContent(args, up) ==
  /\ NotCalled
  /\ last' = [op |-> "getNoteContent", args |-> args, upstream |-> up,
              request |-> getNoteContent(args, ToolToken, up).request,
              response |-> getNoteContent(args, ToolToken, up).response]
  /\ UNCHANGED keychainVars
  /\ UNCHANGED serverVars

\* enmlToPlainText(enml), called with a note body
EnmlToPlainText(enml) ==
  /\ NotCalled
  /\ last' = [op |-> "enmlToPlainText", enml |-> enml, text |-> enmlToPlainText(enml)]
  /\ UNCHANGED keychainVars
  /\ UNCHANGED serverVars

\* Parameter mappings: three members in every insertion order, with two
\* nonces (one with a character that is percent-encoded).
SignedMembers(nonce) ==
  {[key |-> "oauth_nonce", value |-> nonce],
   [key |-> "oauth_consumer_key", value |-> "ck"],
   [key |-> "oauth_callback", value |-> "https://localhost:3443/oauth/callback"]}

Orders(members) ==
  {order \in [1..Cardinality(members) -> members] :
     \A i, j \in 1..Cardinality(members) : i # j => order[i] # order[j]}

RequestUrl == "https://www.evernote.com/oauth"

\* makeOAuthRequest signs params, and signs the same members inserted in
\* another order.
GenerateSignature(method, params, other, tokenSecret) ==
  /\ NotCalled
  /\ last' = [op |-> "generateSignature", method |-> method, params |-> params,
              other |-> other, tokenSecret |-> tokenSecret,
              signature |-> generateSignature(method, RequestUrl, params, tokenSecret,
                                              config.consumerSecret),
              otherSignature |-> generateSignature(method, RequestUrl, other, tokenSecret,
                                                   config.consumerSecret)]
  /\ UNCHANGED keychainVars
  /\ UNCHANGED serverVars

\* getRequestToken and getAccessToken call generateOAuthParams(token, verifier);
\* a token or verifier that is not passed, or null, is Undefined here. The
\* timestamp is the clock's reading, printed in decimal.
GenerateOAuthParams(nonce, token, verifier) ==
  /\ NotCalled
  /\ last' = [op |-> "generateOAuthParams", token |-> token, verifier |-> verifier,
              params |-> generateOAuthParams(config.consumerKey, nonce,
                                             IntToString(now),
                                             token, verifier)]
  /\ UNCHANGED keychainVars
  /\ UNCHANGED serverVars

\* ------------------------------------------------------------ the system
CallbackTokens == {Undefined, "RT1", "RT9", "constructor"}
CallbackVerifiers == {Undefined, "v1"}

\* The OAuth lifecycle of the process: startup, the callback endpoint, restarts.
AuthNext ==
  \/ Tick
  \/ StartServerCheck
  \/ \E shouldReauth \in BOOLEAN : AskUserConfirmation(shouldReauth)
  \/ \E resp \in RequestTokenResponses : Authenticate(resp)
  \/ FinishStartup
  \/ \E t \in CallbackTokens, v \in CallbackVerifiers : CallbackArrive(t, v)
  \/ \E i \in 1..MaxInflight, resp \in AccessTokenResponses, fileOk \in BOOLEAN :
       CallbackExchangeDone(i, resp, fileOk)
  \/ Restart

AuthSpec == Init /\ [][AuthNext]_vars

\* Startup, then the tool endpoint and the cache timer.
ToolNext ==
  \/ Tick
  \/ StartServerCheck
  \/ \E shouldReauth \in BOOLEAN : AskUserConfirmation(shouldReauth)
  \/ \E resp \in RequestTokenResponses : Authenticate(resp)
  \/ FinishStartup
  \/ \E fmt \in {"legacy", "jsonrpc"}, req \in McpRequests :
       \E up \in Upstreams(req.name) : McpCall(fmt, req.name, req.args, up)
  \/ CleanupCache

ToolSpec == Init /\ [][ToolNext]_vars

\* The credential store alone, in both editions: stores and loads interleave.
StoreInit ==
  /\ Init
  /\ config = [consumerKey |-> "ck", consumerSecret |-> "cs"]
  /\ envFile = ConfigLines

StoreNext ==
  \/ \E tokenData \in StoreTokens : StoreTokenInKeychain(tokenData)
  \/ \E ok \in BOOLEAN : SetPassword(ok)
  \/ GetTokenFromKeychain
  \/ \E ok \in BOOLEAN : GetPassword(ok)
  \/ \E tokenData \in StoreTokens, fileOk \in BOOLEAN : StoreTokenInEnv(tokenData, fileOk)
  \/ \E newProcess \in BOOLEAN, ok \in BOOLEAN : GetTokenFromEnv(newProcess, ok)

StoreSpec == StoreInit /\ [][StoreNext]_vars

\* The pure functions of the tools and of auth.js, applied to drawn inputs.
FunNext ==
  \/ \E args \in SearchArgs, other \in SearchArgs : GenerateSearchId(args, other)
  \/ \E args \in QueryArgs : BuildSearchQuery(args)
  \/ \E args \in CreateSearchArgs, up \in SearchUpstreams : CreateSearch(args, up)
  \/ \E nonce \in {"n1", "n 2"}, method \in {"GET", "post"}, tokenSecret \in {"", "rts"} :
       \E params \in Orders(SignedMembers(nonce)), other \in Orders(SignedMembers(nonce)) :
         GenerateSignature(method, params, other, tokenSecret)
  \/ \E nonce \in {"n1", "n 2"}, token \in {Undefined, "", "RT1"},
        verifier \in {Undefined, "", "v1"} : GenerateOAuthParams(nonce, token, verifier)
  \/ \E args \in ContentArgs, up \in ContentUpstreams : GetNoteContent(args, up)
  \/ \E enml \in NoteContents : EnmlToPlainText(enml)
  \/ \E cache \in WrittenCaches, t \in 0..(MaxTime + CacheTtl + 1) : Sweep(cache, t)
  \/ \E args \in {BoatArgs, [query |-> "Ab"], [query |-> "Ba"]}, cache \in WrittenCaches :
       \E up \in SearchUpstreams, thrown \in BOOLEAN, t \in 0..(MaxTime + CacheTtl + 1) :
         GetSearch(args, cache, SearchOutcome(args, up, thrown), t)
  \/ \E args \in {BoatArgs, [query |-> "Ab"]}, up \in SearchUpstreams, t \in 0..MaxTime :
       \E swept \in BOOLEAN, later \in LaterUpstreams :
         \E s \in t..(t + CacheTtl + 1), u \in t..(t + CacheTtl + 1) :
           GetSearchTwice(args, up, t, swept, s, later, u)
  \/ \E name \in {"createSearch", "getNote", "getNoteContent"} :
       \E error \in ToolErrors(name), other \in ToolErrors(name) :
         ToolFailure(name, error, other)

FunSpec == StoreInit /\ [][FunNext]_vars

\* The server with searches being cached, time passing and the timer of
\* cleanupCache firing again and again.
NotesFound ==
  UpstreamOk([notes |-> <<[guid |-> "n1", title |-> "Boat repair"]>>, totalNotes |-> 1])

SweepNext ==
  \/ Tick
  \/ StartServerCheck
  \/ \E shouldReauth \in BOOLEAN : AskUserConfirmation(shouldReauth)
  \/ \E resp \in RequestTokenResponses : Authenticate(resp)
  \/ FinishStartup
  \/ \E fmt \in {"legacy", "jsonrpc"} : McpCall(fmt, "getSearch", BoatArgs, NotesFound)
  \/ CleanupCache

\* Time passes, and whenever the cache holds something a sweep would remove,
\* a sweep comes.
SweepSpec ==
  Init /\ [][SweepNext]_vars /\ WF_now(Tick) /\ WF_searchCache(CleanupCache)

\* The tool calls made while the OAuth flow is going on.
FlowRequests == {[name |-> "getNote", args |-> [noteGuid |-> "n1"]]}

\* The OAuth lifecycle with tool calls arriving at any time while listening.
FlowNext ==
  \/ AuthNext
  \/ \E fmt \in {"legacy", "jsonrpc"}, req \in FlowRequests :
       \E up \in Upstreams(req.name) : McpCall(fmt, req.name, req.args, up)

FlowSpec == Init /\ [][FlowNext]_vars

Next == AuthNext \/ ToolNext \/ StoreNext \/ FunNext

Spec == Init /\ [][Next]_vars

\* ------------------------------------------------------------ properties
\* The reply to a tool request is "authentication required".
AuthenticationRequired(step) ==
  /\ ~step.invoked
  /\ ~step.request.sent
  /\ step.fmt = "legacy" => step.reply.httpStatus = 401 /\ step.reply.error = "Not authenticated"
  /\ step.fmt = "jsonrpc" => step.reply.code = -32001

\* C1: a getSearch carrying the identifier of a search that createSearch or
\* getSearch executed and whose TTL has not elapsed answers with a success
\* payload, not with 'not found or expired'.
C1_SearchByIdFound ==
  (/\ last.op = "mcp"
   /\ last.invoked
   /\ last.name = "getSearch"
   /\ TruthyStr(last.args, "searchId")
   /\ last.args.searchId \in DOMAIN executed
   /\ now <= executed[last.args.searchId] + CacheTtl)
  => /\ last.reply.result # Null
     /\ last.reply.result.status = "success"

\* C2: once the exchange of a callback has finished, with success or with
\* failure, oauthState holds no entry for its oauth_token.
C2_PendingEntryDeleted ==
  last.op = "callbackDone" => last.oauth_token \notin DOMAIN oauthState

\* C3: a tool request made when the stored credential has an expiry that is
\* earlier than the current time invokes no tool and is answered as
\* authentication required.
C3_ExpiredCredentialRefused ==
  (/\ last.op = "mcp"
   /\ Truthy(env.EVERNOTE_ACCESS_TOKEN)
   /\ Truthy(env.EVERNOTE_EDAM_EXPIRES)
   /\ ~parseInt(env.EVERNOTE_EDAM_EXPIRES).nan
   /\ parseInt(env.EVERNOTE_EDAM_EXPIRES).val < now)
  => AuthenticationRequired(last)

\* C4: when startServer has returned after authenticate() failed (placeholder
\* consumer key or secret, or a failed request-token call), the HTTPS server
\* is listening.
C4_ListeningAfterAuthFailure ==
  (StartupDone /\ startupError \in {"ConfigurationError", "RequestTokenError"})
  => pc = "listening"

\* C5: with no credential stored, a tool request in either format is answered
\* 401 'Not authenticated' (legacy) or JSON-RPC -32001 (callTool), and no tool
\* function is invoked.
C5_UnauthenticatedRefused ==
  (last.op = "mcp" /\ ~Truthy(env.EVERNOTE_ACCESS_TOKEN))
  => AuthenticationRequired(last)

C5_Witness ==
  /\ last.op = "mcp"
  /\ ~Truthy(env.EVERNOTE_ACCESS_TOKEN)
  /\ last.fmt = "jsonrpc"
  /\ last.name = "createSearch"
  /\ last.args = BoatArgs
  /\ last.reply.code = -32001

\* C6: a callback without oauth_token or oauth_verifier, or whose oauth_token
\* has no entry in oauthState, is answered 400, starts no token exchange and
\* leaves oauthState and the stored credential as they were.
C6_BadCallbackRejected ==
  [][(/\ last'.op = "callback"
      /\ \/ ~Truthy(last'.oauth_token)
         \/ ~Truthy(last'.oauth_verifier)
         \/ last'.oauth_token \notin DOMAIN oauthState)
     => /\ last'.status = 400
        /\ ~last'.exchange
        /\ inflight' = inflight
        /\ oauthState' = oauthState
        /\ env' = env
        /\ envFile' = envFile]_vars

\* C7 as claimed: on a 200 response the exchange fails only when oauth_token
\* is missing; with oauth_token_secret missing or empty it returns a
\* credential whose tokenSecret is the empty string.
C7_MissingSecretTolerated ==
  (last.op = "callbackDone" /\ last.response.kind = "200")
  => /\ last.threw <=> ~Truthy(last.response.body.oauth_token)
     /\ (~last.threw /\ ~Truthy(last.response.body.oauth_token_secret))
        => last.tokenData.tokenSecret = ""

\* C7 as amended: on a 200 response the exchange fails exactly when
\* oauth_token is missing or the oauth_token_secret field is absent; a secret
\* that is present, empty or not, is returned as the tokenSecret.
C7_AbsentSecretRejected ==
  (last.op = "callbackDone" /\ last.response.kind = "200")
  => /\ last.threw <=> (\/ ~Truthy(last.response.body.oauth_token)
                        \/ last.response.body.oauth_token_secret = Undefined)
     /\ ~last.threw
        => /\ last.tokenData.accessToken = last.response.body.oauth_token
           /\ last.tokenData.tokenSecret = last.response.body.oauth_token_secret

C7_Witness ==
  /\ last.op = "callbackDone"
  /\ last.response.kind = "200"
  /\ last.response.body.oauth_token = "AT2"
  /\ last.response.body.oauth_token_secret = ""
  /\ ~last.threw
  /\ last.tokenData.tokenSecret = ""

\* C8: when the 200 response to the request-token call lacks oauth_token or
\* oauth_token_secret, authenticate() throws: startServer gets no pending
\* callback state, the browser is not opened and oauthState records nothing.
C8_IncompleteRequestTokenFails ==
  (/\ last.op = "authenticate"
   /\ last.requested
   /\ last.response.kind = "200"
   /\ \/ ~Truthy(last.response.body.oauth_token)
      \/ ~Truthy(last.response.body.oauth_token_secret))
  => /\ last.threw
     /\ last.opened = Undefined
     /\ browser = Undefined
     /\ authResult = Null
     /\ oauthState = EmptyMap
     /\ pc = "failed"

C8_Witness ==
  /\ last.op = "authenticate"
  /\ last.requested
  /\ last.response.kind = "200"
  /\ last.response.body.oauth_token = "RT1"
  /\ last.response.body.oauth_token_secret = Undefined
  /\ last.threw

\* C9: checkTokenExpiration answers hasToken=false, isExpired=false without a
\* credential; hasToken=true, isExpired=false and 'assuming valid' for a
\* credential without expiry; otherwise hasToken=true, and isExpired exactly
\* when the current time is greater than the stored expiry.
C9_ExpirationStatus ==
  last.op = "checkTokenExpiration"
  => IF ~Truthy(env.EVERNOTE_ACCESS_TOKEN)
     THEN ~last.tokenStatus.hasToken /\ ~last.tokenStatus.isExpired
     ELSE IF ~Truthy(env.EVERNOTE_EDAM_EXPIRES)
     THEN /\ last.tokenStatus.hasToken
          /\ ~last.tokenStatus.isExpired
          /\ last.tokenStatus.message
               = "Token expiration date not available (assuming valid)"
     ELSE /\ last.tokenStatus.hasToken
          /\ last.tokenStatus.isExpired
               <=> (/\ ~parseInt(env.EVERNOTE_EDAM_EXPIRES).nan
                    /\ now > parseInt(env.EVERNOTE_EDAM_EXPIRES).val)

\* C10: after storeTokenInEnv has completed without an error, what a newly
\* started process loads (dotenv on the .env file, then getTokenFromEnv) is
\* the persisted credential, field by field, an absent optional field
\* counting as the empty string.
C10_PersistThenLoad ==
  (last.op = "callbackDone" /\ ~last.threw)
  => getTokenFromEnv(DotenvConfig(envFile)) = getTokenFromEnv(TokenEnv(last.tokenData))

\* What a load returns when tokenData is stored completely.
Loaded(backend, tokenData) ==
  IF backend = "env" THEN getTokenFromEnv(TokenEnv(tokenData))
  ELSE getTokenFromKeychain(StoredInKeychain(tokenData))

\* C11: every load, also one that interleaves with a store, returns no
\* credential or one credential as it was handed to a store function, whole:
\* never fields of two credentials, never a part of one.
C11_LoadNeverMixes ==
  last.op = "load"
  => \/ last.result = Null
     \/ \E tokenData \in stored : last.result = Loaded(last.backend, tokenData)

\* The last step was getSearch, invoked with args.searchId.
SearchByIdRan ==
  /\ last.op = "mcp"
  /\ last.invoked
  /\ last.name = "getSearch"
  /\ TruthyStr(last.args, "searchId")

\* C12: the lookup by identifier returns the stored entry exactly when the
\* cache holds one for the identifier and the current time is not past its
\* expires (no sweep needed); after a lookup that returned nothing the cache
\* holds no entry for the identifier, and a lookup that returned the entry
\* leaves the cache as it was.
C12_CacheGet ==
  SearchByIdRan
  => IF /\ last.args.searchId \in DOMAIN last.found
        /\ now <= last.found[last.args.searchId].expires
     THEN /\ last.reply.result # Null
          /\ last.reply.result.status = "success"
          /\ last.reply.result.data.cached
          /\ last.reply.result.data.results
               = last.found[last.args.searchId].results.data.results
          /\ last.reply.result.data.timestamp
               = last.found[last.args.searchId].timestamp
          /\ searchCache = last.found
     ELSE /\ last.reply.result # Null
          /\ last.reply.result.status = "error"
          /\ last.args.searchId \notin DOMAIN searchCache
          /\ searchCache = DeleteKey(last.found, last.args.searchId)

\* a lookup found an entry whose TTL had elapsed, and removed it
C12_Witness ==
  /\ SearchByIdRan
  /\ last.args.searchId \in DOMAIN last.found
  /\ now > last.found[last.args.searchId].timestamp + CacheTtl
  /\ last.args.searchId \notin DOMAIN searchCache
  /\ last.reply.result.status = "error"

\* C13: two argument objects whose normalised filter sets differ, and in
\* particular two that differ only in offset, get different identifiers.
C13_DistinctIds ==
  (last.op = "generateSearchId" /\ SearchFilter(last.args) # SearchFilter(last.other))
  => last.searchId # last.otherId

\* C14: two argument objects that describe the same filter combination, an
\* omitted page size counting as 20 and an omitted offset as 0, get the same
\* identifier.
C14_SameFilterSameId ==
  (last.op = "generateSearchId" /\ SearchFilter(last.args) = SearchFilter(last.other))
  => last.searchId = last.otherId

C14_Witness ==
  /\ last.op = "generateSearchId"
  /\ last.args = BoatArgs
  /\ last.other = [query |-> "boat", maxResults |-> 20, offset |-> 0, tags |-> <<>>]
  /\ last.searchId = last.otherId

\* The clauses the search grammar has for an argument object, in the order
\* query text, notebook, tags, created, updated.
ExpectedClauses(args) ==
  (IF TruthyStr(args, "query") THEN <<args.query>> ELSE <<>>)
  \o (IF TruthyStr(args, "notebookName")
      THEN <<"notebook:\"" \o args.notebookName \o "\"">> ELSE <<>>)
  \o (IF Has(args, "tags")
      THEN [i \in 1..Len(args.tags) |-> "tag:\"" \o args.tags[i] \o "\""]
      ELSE <<>>)
  \o (IF TruthyStr(args, "createdAfter")
      THEN <<"created:" \o SubSeq(args.createdAfter, 1, 10)>> ELSE <<>>)
  \o (IF TruthyStr(args, "updatedAfter")
      THEN <<"updated:" \o SubSeq(args.updatedAfter, 1, 10)>> ELSE <<>>)

\* the argument object without its paging fields
WithoutPaging(args) == [k \in (DOMAIN args) \ {"maxResults", "offset"} |-> args[k]]

\* C15: the string buildSearchQuery returns is the present clauses in the
\* order query text, notebook:"<name>", one tag:"<t>" per tag in input
\* order, created:<date>, updated:<date>, with one space between two
\* clauses; it is the string returned for the same filters without offset
\* and page size; {query: boat, tags: [repair, urgent]} gives
\* boat tag:"repair" tag:"urgent".
C15_QueryClauses ==
  (last.op = "buildSearchQuery" /\ ~last.threw)
  => /\ last.query = Join(ExpectedClauses(last.args), " ")
     /\ last.query = buildSearchQuery(WithoutPaging(last.args)).query
     /\ last.args = [query |-> "boat", tags |-> <<"repair", "urgent">>]
        => last.query = "boat tag:\"repair\" tag:\"urgent\""

C15_Witness ==
  /\ last.op = "buildSearchQuery"
  /\ last.args = [query |-> "boat", notebookName |-> "Work",
                  tags |-> <<"repair", "urgent">>, createdAfter |-> "2024-01-15",
                  updatedAfter |-> "2024-02-01", maxResults |-> 50, offset |-> 20]
  /\ last.query = "boat notebook:\"Work\" tag:\"repair\" tag:\"urgent\" created:2024-01-15 updated:2024-02-01"

\* C16: a createSearch call with no query text, no notebook name and no tag
\* sends nothing to the NoteStore.
C16_NoCriterionNoRequest ==
  (/\ last.op = "createSearch"
   /\ ~TruthyStr(last.args, "query")
   /\ ~TruthyStr(last.args, "notebookName")
   /\ Has(last.args, "tags") => last.args.tags = <<>>)
  => ~last.request.sent

\* C17: the request createSearch sends carries a page size (maxNotes) in
\* 1..100, 20 when maxResults is omitted, and an offset of at least 0, 0 when
\* offset is omitted.
C17_PagingInRange ==
  (last.op = "createSearch" /\ last.request.sent)
  => /\ last.request.maxNotes \in 1..100
     /\ ~Has(last.args, "maxResults") => last.request.maxNotes = 20
     /\ last.request.offset >= 0
     /\ ~Has(last.args, "offset") => last.request.offset = 0

\* C18: a tool function that the dispatch layer invoked returned a payload
\* whose status is 'success' or 'error', with a message when it is 'error';
\* it did not throw to the dispatch layer.
C18_ToolsReturnPayload ==
  (last.op = "mcp" /\ last.invoked)
  => /\ last.reply.result # Null
     /\ last.reply.result.status \in {"success", "error"}
     /\ last.reply.result.status = "error" => Truthy(last.reply.result.error)

\* C19: the signature is the same for the same method, URL, token secret and
\* members, in whatever order the members were inserted.
C19_SignatureOrderFree ==
  last.op = "generateSignature" => last.signature = last.otherSignature

C19_Witness ==
  /\ last.op = "generateSignature"
  /\ last.params[1].key = "oauth_nonce"
  /\ last.other[1].key = "oauth_consumer_key"
  /\ last.other[2].key = "oauth_nonce"
  /\ last.params[1].value = "n 2"
  /\ last.signature = last.otherSignature
  /\ last.signature.data
       = "POST&https%3A%2F%2Fwww.evernote.com%2Foauth&oauth_callback%3Dhttps%253A%252F%252Flocalhost%253A3443%252Foauth%252Fcallback%26oauth_consumer_key%3Dck%26oauth_nonce%3Dn%25202"

\* the value of key in params, Undefined when params has no such member
ParamValue(params, key) ==
  IF \E i \in 1..Len(params) : params[i].key = key
  THEN params[CHOOSE i \in 1..Len(params) : params[i].key = key].value
  ELSE Undefined

\* C20: the parameters always hold the consumer key, a nonce, the signature
\* method HMAC-SHA1, a timestamp and the version 1.0; they hold oauth_callback
\* exactly when no token is given, oauth_token exactly when a token is given
\* and oauth_verifier exactly when a verifier is given (null and the empty
\* string being no token and no verifier).
C20_OAuthParams ==
  last.op = "generateOAuthParams"
  => /\ ParamValue(last.params, "oauth_consumer_key") = config.consumerKey
     /\ ParamValue(last.params, "oauth_nonce") # Undefined
     /\ ParamValue(last.params, "oauth_signature_method") = "HMAC-SHA1"
     /\ ParamValue(last.params, "oauth_timestamp") # Undefined
     /\ ParamValue(last.params, "oauth_version") = "1.0"
     /\ ParamValue(last.params, "oauth_callback") # Undefined <=> ~Truthy(last.token)
     /\ ParamValue(last.params, "oauth_token") # Undefined <=> Truthy(last.token)
     /\ Truthy(last.token) => ParamValue(last.params, "oauth_token") = last.token
     /\ ParamValue(last.params, "oauth_verifier") # Undefined <=> Truthy(last.verifier)
     /\ Truthy(last.verifier) => ParamValue(last.params, "oauth_verifier") = last.verifier
     /\ \A i, j \in 1..Len(last.params) :
          last.params[i].key = last.params[j].key => i = j

C20_Witness ==
  /\ last.op = "generateOAuthParams"
  /\ last.token = "RT1"
  /\ last.verifier = "v1"
  /\ ParamValue(last.params, "oauth_token") = "RT1"
  /\ ParamValue(last.params, "oauth_verifier") = "v1"
  /\ ParamValue(last.params, "oauth_callback") = Undefined

\* EVERNOTE_CONFIG still holds a placeholder
PlaceholderConfig ==
  \/ config.consumerKey = "your-consumer-key"
  \/ config.consumerSecret = "your-consumer-secret"

\* C21: authenticate calls the provider and opens the browser only when no
\* credential is stored and neither the consumer key nor the consumer secret
\* is a placeholder; with a stored credential it returns that credential, with
\* a placeholder it fails with a configuration error, and in both cases there
\* is no provider request and no browser launch.
C21_AuthenticateGuards ==
  last.op = "authenticate"
  => /\ (last.requested \/ last.opened # Undefined)
          => getTokenFromEnv(env) = Null /\ ~PlaceholderConfig
     /\ getTokenFromEnv(env) # Null
          => /\ ~last.threw
             /\ last.value = getTokenFromEnv(env)
             /\ ~last.requested
             /\ last.opened = Undefined
     /\ (getTokenFromEnv(env) = Null /\ PlaceholderConfig)
          => /\ last.threw
             /\ last.error = "ConfigurationError"
             /\ ~last.requested
             /\ last.opened = Undefined

C21_Witness ==
  /\ last.op = "authenticate"
  /\ getTokenFromEnv(env) = Null
  /\ ~PlaceholderConfig
  /\ last.requested
  /\ last.opened = "RT1"
  /\ browser = "RT1"

\* C22: when the stored credential is expired and the user confirms, every
\* credential variable is removed before the new flow starts: after
\* clearStoredTokens the load returns null, and the authenticate that follows
\* enters the request-token flow (the provider is asked, unless the
\* configuration check stops it) and never returns the expired credential.
C22_ClearedBeforeReauth ==
  [][/\ (last'.op = "askUserConfirmation" /\ last'.shouldReauth)
          => /\ \A k \in TokenVarSet : env'[k] = Undefined
             /\ getTokenFromEnv(env') = Null
             /\ pc' = "auth"
     /\ (last.op = "askUserConfirmation" /\ last.shouldReauth
         /\ last'.op = "authenticate")
          => /\ "accessToken" \notin DOMAIN last'.value
             /\ last'.requested \/ last'.error = "ConfigurationError"
             /\ ~PlaceholderConfig => last'.requested]_vars

\* the provider was asked for a request token by a process whose .env file
\* still names the expired credential: the variables were cleared in between
C22_Witness ==
  /\ last.op = "authenticate"
  /\ last.requested
  /\ DotenvConfig(envFile).EVERNOTE_ACCESS_TOKEN = "AT1"
  /\ DotenvConfig(envFile).EVERNOTE_EDAM_EXPIRES = "1"
  /\ getTokenFromEnv(env) = Null
  /\ now > 1

\* C23: when the stored credential is expired at startup and the user
\* declines to re-authenticate, startup goes on to start the HTTPS listener.
C23_DeclinedStillListens ==
  [][(last.op = "askUserConfirmation" /\ ~last.shouldReauth
      /\ last'.op = "finishStartup")
       => pc' = "listening" /\ startupError' = Undefined]_vars

\* C24: getNoteContent returns the note body by format: with enml the content
\* is the provider's content unmodified, with html it is enmlToHtml of it,
\* with text or no format (an empty one included) enmlToPlainText of it; any
\* other format is answered with an error payload and no NoteStore call.
C24_ContentByFormat ==
  (last.op = "getNoteContent" /\ TruthyStr(last.args, "noteGuid"))
  => IF NoteFormat(last.args) \notin {"text", "html", "enml"}
     THEN /\ ~last.request.sent
          /\ last.response.status = "error"
          /\ last.response.data = Null
     ELSE last.upstream.kind = "ok"
          => /\ last.request.sent
             /\ last.response.status = "success"
             /\ last.response.data.format = NoteFormat(last.args)
             /\ NoteFormat(last.args) = "enml"
                  => last.response.data.content = last.upstream.body.content
             /\ NoteFormat(last.args) = "html"
                  => last.response.data.content = enmlToHtml(last.upstream.body.content)
             /\ NoteFormat(last.args) = "text"
                  => last.response.data.content
                       = enmlToPlainText(last.upstream.body.content)

\* the raw body of a checklist note came back for format enml, and it is
\* neither its HTML nor its text
C24_Witness ==
  /\ last.op = "getNoteContent"
  /\ Has(last.args, "format")
  /\ last.args.format = "enml"
  /\ last.upstream.kind = "ok"
  /\ last.response.status = "success"
  /\ last.upstream.body.content
       = TodoDocument(Chars("<en-todo checked=\"true\"/>"), Chars("Buy milk"))
  /\ last.response.data.content = last.upstream.body.content
  /\ last.response.data.content # enmlToHtml(last.upstream.body.content)
  /\ last.response.data.content # enmlToPlainText(last.upstream.body.content)

\* C25: enmlToPlainText never lets the content of an encrypted section into
\* its output: the en-crypt element and everything between its tags is
\* replaced by [Encrypted Content].
C25_EncryptedContentHidden ==
  last.op = "enmlToPlainText"
  => \A opening \in CryptOpenings, secret \in Secrets :
       last.enml = CryptDocument(opening, secret)
       => /\ ~Includes(last.text, SecretStart)
          /\ last.text = Chars("a[Encrypted Content]b")

\* a paragraph text that the clean-up rules leave as it is: not empty, no
\* entity, no markup, and no whitespace but single spaces between words
PlainParagraph(text) ==
  /\ text # <<>>
  /\ \A i \in 1..Len(text) : text[i] \notin {"&", "<", "\t", "\n", "\r"}
  /\ text[1] # " " /\ text[Len(text)] # " "
  /\ \A i \in 1..(Len(text) - 1) : ~(text[i] = " " /\ text[i + 1] = " ")

\* C26 as stated: for a document of the root wrapper, a checked checklist
\* marker and one paragraph, enmlToPlainText returns exactly the checked box,
\* one space and the paragraph text, whatever the paragraph text is.
C26_TodoRoundTripAnyText ==
  last.op = "enmlToPlainText"
  => \A marker \in CheckedMarkers, text \in ParagraphTexts :
       last.enml = TodoDocument(marker, text)
       => last.text = <<CheckedBox, " ">> \o text

\* C26: for a document of the root wrapper, a checked checklist marker and
\* one paragraph, enmlToPlainText returns the checked box, one space and the
\* paragraph text when that text is not empty and holds no entity and no
\* whitespace but single spaces between words; an empty paragraph gives the
\* checked box alone; in every case the output starts with the checked box
\* and no tag is left in it.
C26_TodoRoundTrip ==
  last.op = "enmlToPlainText"
  => \A marker \in CheckedMarkers, text \in ParagraphTexts :
       last.enml = TodoDocument(marker, text)
       => /\ PlainParagraph(text) => last.text = <<CheckedBox, " ">> \o text
          /\ text = <<>> => last.text = <<CheckedBox>>
          /\ Head(last.text) = CheckedBox
          /\ \A i \in 1..Len(last.text) : last.text[i] \notin {"<", ">"}

C26_Witness ==
  /\ last.op = "enmlToPlainText"
  /\ last.enml = TodoDocument(Chars("<en-todo checked=\"true\"/>"), Chars("Buy milk"))
  /\ last.text = <<CheckedBox, " ">> \o Chars("Buy milk")

\* the category of a failure payload, which its message alone carries
FailureCategory(errorMessage) ==
  IF errorMessage = "Evernote authentication failed. Please re-authenticate."
  THEN "authentication"
  ELSE IF Includes(errorMessage, " not found or has been deleted.") THEN "not found"
  ELSE IF errorMessage = "Evernote API quota exceeded. Please try again later."
  THEN "quota"
  ELSE IF Includes(errorMessage, "Network error connecting to Evernote.") THEN "network"
  ELSE "other"

C28_SweepFrame ==
  last.op = "sweep"
  => /\ DOMAIN last.swept = {id \in DOMAIN last.cache : ~(last.cache[id].expires < last.t)}
     /\ \A id \in DOMAIN last.swept : last.swept[id] = last.cache[id]

\* a sweep at the very time one entry expires, after another has expired:
\* the first is kept, the second removed
C28_Witness ==
  /\ last.op = "sweep"
  /\ Cardinality(DOMAIN last.cache) = 2
  /\ \E id \in DOMAIN last.cache : last.cache[id].expires < last.t
  /\ \E id \in DOMAIN last.cache :
       last.cache[id].expires = last.t /\ last.swept = [i \in {id} |-> last.cache[id]]

\* The entries getSearch created or rewrote.
Created == {id \in DOMAIN last.return.cache :
              id \notin DOMAIN last.cache \/ last.return.cache[id] # last.cache[id]}

\* getSearch found no usable entry for the criteria.
CacheMiss ==
  \/ last.searchId \notin DOMAIN last.cache
  \/ last.t > last.cache[last.searchId].expires

C30_SecondCallCached ==
  (/\ last.op = "getSearch twice"
   /\ last.first.response.status = "success"
   /\ last.u < last.t + CacheTtl)
  => /\ ~last.second.request.sent
     /\ last.second.response.status = "success"
     /\ last.second.response.data.cached
     /\ last.second.response.data.results = last.first.response.data.results
     /\ last.second.response.data.totalFound = last.first.response.data.totalFound
     /\ last.second.response.data.searchId = last.first.response.data.searchId
     /\ last.second.response.data.timestamp = last.t

\* the second call came later, after a sweep, when the NoteStore would have
\* answered otherwise, and got the first call's one note from the cache
C30_Witness ==
  /\ last.op = "getSearch twice"
  /\ last.first.response.status = "success"
  /\ last.first.request.sent
  /\ ~last.first.response.data.cached
  /\ last.t < last.u /\ last.u < last.t + CacheTtl
  /\ last.swept
  /\ last.later = UpstreamOk([notes |-> <<>>, totalNotes |-> 0])
  /\ last.second.response.data.cached
  /\ Len(last.second.response.data.results) = 1

\* C31: a credential that getTokenFromEnv returns, or that handleCallback
\* returns, has a non-empty accessToken; a provider response without
\* oauth_token makes the exchange fail and stores no credential.
C31_AccessTokenNonEmpty ==
  /\ getTokenFromEnv(env) # Null => Truthy(getTokenFromEnv(env).accessToken)
  /\ last.op = "callbackDone"
       => /\ ~last.threw
               => /\ Truthy(last.tokenData.accessToken)
                  /\ getTokenFromEnv(env) # Null
                  /\ getTokenFromEnv(env).accessToken = last.tokenData.accessToken
          /\ (last.response.kind # "200" \/ ~Truthy(last.response.body.oauth_token))
               => /\ last.threw
                  /\ last.tokenData = Null
                  /\ ~last.written

\* the provider answered 200 without oauth_token and no credential is stored
C31_Witness ==
  /\ last.op = "callbackDone"
  /\ last.response.kind = "200"
  /\ ~Truthy(last.response.body.oauth_token)
  /\ last.threw
  /\ getTokenFromEnv(env) = Null

\* C32: for any request token the access-token exchange is attempted at most
\* once, also when two callbacks carrying the same oauth_token are handled
\* at the same time: no two handlers await the exchange of one token.
C32_ExchangeOncePerToken ==
  \A i \in 1..MaxInflight, j \in 1..MaxInflight :
    (/\ inflight[i] # Null
     /\ inflight[j] # Null
     /\ inflight[i].oauth_token = inflight[j].oauth_token)
    => i = j

\* The provider's answer to the exchange is a failure: no 200, or a body
\* without oauth_token.
ExchangeFailed(resp) ==
  resp.kind # "200" \/ ~Truthy(resp.body.oauth_token)

\* C33: handleCallback persists only after a successful exchange: when the
\* exchange fails (non-200 response, transport error, missing oauth_token)
\* process.env and the .env file are left as they were and the callback is
\* answered with HTTP 500; a callback that changes either was not a failure.
C33_FailedExchangeStoresNothing ==
  [][last'.op = "callbackDone"
     => /\ ExchangeFailed(last'.response)
             => /\ env' = env
                /\ envFile' = envFile
                /\ last'.status = 500
                /\ last'.threw
        /\ (env' # env \/ envFile' # envFile)
             => /\ ~last'.threw
                /\ ~ExchangeFailed(last'.response)
                /\ last'.status = 200]_vars

\* an exchange failed for want of oauth_token while a credential of an
\* earlier callback was stored, and that credential is still there
C33_Witness ==
  /\ last.op = "callbackDone"
  /\ last.response.kind = "200"
  /\ ExchangeFailed(last.response)
  /\ last.status = 500
  /\ getTokenFromEnv(env) # Null
  /\ getTokenFromEnv(env).accessToken = "AT2"

\* C34: for a flow started at startup, the request token of the authorize
\* URL opened in the browser is recorded with its secret in oauthState
\* before the callback endpoint accepts a request: callbacks are handled
\* only while listening, and until a callback has stored a credential the
\* entry is there, so the first callback for the token starts the exchange
\* and is not answered 'Invalid OAuth state'.
C34_PendingBeforeListening ==
  /\ last.op = "callback" => pc = "listening"
  /\ (pc = "listening" /\ browser # Undefined /\ getTokenFromEnv(env) = Null)
       => /\ browser \in DOMAIN oauthState
          /\ Truthy(oauthState[browser])
  /\ (/\ last.op = "callback"
      /\ browser # Undefined
      /\ last.oauth_token = browser
      /\ Truthy(last.oauth_verifier)
      /\ getTokenFromEnv(env) = Null)
       => /\ last.hadEntry
          /\ last.exchange
          /\ last.error # "Invalid OAuth state"

\* the callback for the token opened in the browser found its secret
C34_Witness ==
  /\ last.op = "callback"
  /\ browser = "RT1"
  /\ last.oauth_token = browser
  /\ last.exchange
  /\ \E i \in 1..MaxInflight :
       inflight[i] # Null /\ inflight[i].requestTokenSecret = "rts"
  /\ getTokenFromEnv(env) = Null

\* A callback of this process has been answered with the success response:
\* the request token opened in the browser was recorded at startup and its
\* entry, which only code after a resolved handleCallback deletes, is gone.
CallbackSucceeded ==
  /\ pc = "listening"
  /\ browser # Undefined
  /\ browser \notin DOMAIN oauthState

\* C35: a callback is answered with the success response only after the new
\* credential is stored, and every tool call that arrives after a callback's
\* success response finds a stored credential and is not rejected as
\* unauthenticated.
C35_StoredBeforeSuccess ==
  /\ (last.op = "callbackDone" /\ last.status = 200)
       => /\ getTokenFromEnv(env) # Null
          /\ getTokenFromEnv(env).accessToken = last.tokenData.accessToken
  /\ CallbackSucceeded => getTokenFromEnv(env) # Null
  /\ (last.op = "mcp" /\ CallbackSucceeded)
       => /\ last.tokenData # Null
          /\ ~AuthenticationRequired(last)
          /\ last.invoked

\* a tool call after the callback's success was served with the credential
\* the callback stored
C35_Witness ==
  /\ last.op = "mcp"
  /\ CallbackSucceeded
  /\ last.invoked
  /\ last.request.sent
  /\ last.request.authenticationToken = "AT2"

\* C36: getTokenFromEnv and getTokenFromKeychain never throw: when the
\* backend raises an error on access they return null, as they do when
\* nothing is stored.
C36_LoadNeverThrows ==
  last.op = "load"
  => /\ ~last.threw
     /\ last.failed => last.result = Null
     /\ last.result = Null \/ Truthy(last.result.accessToken)

\* the Keychain held a credential, a read of it was refused, and the load
\* returned null without throwing
C36_Witness ==
  /\ last.op = "load"
  /\ last.backend = "keychain"
  /\ last.failed
  /\ keychain["access_token"] # Null
  /\ last.result = Null
  /\ ~last.threw

\* C37: checkTokenExpiration reports hasToken=true whenever getTokenFromEnv
\* returns a credential, whatever the stored expiry string, so startServer
\* does not take its 'no tokens' branch while a credential is stored.
C37_HasTokenWheneverStored ==
  (last.op = "checkTokenExpiration" /\ getTokenFromEnv(env) # Null)
  => /\ last.tokenStatus.hasToken
     /\ pc # "auth"

\* The cache holds the entry that was written for id at time w.
EntryOf(id, w) ==
  id \in DOMAIN searchCache /\ searchCache[id].timestamp = w

\* C38: while the timer of cleanupCache keeps firing, every cache entry is
\* removed some time after its expiration, whether or not anyone looks its
\* identifier up (entries whose expiration the clock of the model can pass).
C38_ExpiredEventuallyRemoved ==
  \A w \in 0..(MaxTime - CacheTtl - 1) :
    EntryOf(BoatId, w) ~> ~EntryOf(BoatId, w)

\* a sweep removed the expired entry of a search nobody had looked up again
C38_Witness ==
  /\ last.op = "cleanupCache"
  /\ BoatId \in last.removed
  /\ BoatId \in DOMAIN executed
  /\ now > executed[BoatId] + CacheTtl

\* The note the NoteStore answers with has this body.
NoteWith(content) == UpstreamOk([guid |-> "n1", title |-> "Groceries", content |-> content])

\* C39: both converters decode each entity escape of the input exactly once:
\* the text &amp;lt; comes out as the four characters &lt; and &amp;amp; as
\* the five characters &amp;, in the text format and in the HTML format.
C39_EntitiesDecodedOnce ==
  (/\ last.op = "getNoteContent"
   /\ last.response.status = "success"
   /\ NoteFormat(last.args) \in {"text", "html"})
  => /\ last.upstream = NoteWith(EnNote(Chars("&amp;lt;")))
          => last.response.data.content
               = IF NoteFormat(last.args) = "text" THEN Chars("&lt;")
                 ELSE Chars("<div class=\"note-content\">&lt;</div>")
     /\ last.upstream = NoteWith(EnNote(Chars("&amp;amp;")))
          => last.response.data.content
               = IF NoteFormat(last.args) = "text" THEN Chars("&amp;")
                 ELSE Chars("<div class=\"note-content\">&amp;</div>")

====
